---- MODULE Spec2Model ----
(***************************************************************************)
(* Model of the EPG description extractor (src/scripts/extract_desc.py):   *)
(* the text normalizer, the markup repair, the title cleaner, the channel  *)
(* resolver and the description store with its merge policy; of the API    *)
(* fetcher (src/scripts/fetch_epg_desc.py): its loop, its two files and    *)
(* its signal handler; and of the programme times of the two Tvmao         *)
(* crawlers (src/tvmao_epg_crawler.py, src/scripts/tvmao_epg_crawler.py).  *)
(*                                                                         *)
(* A text is a sequence of characters; a character is a one-code-point     *)
(* string.  The absent text (Python None) is the one-element sequence      *)
(* None, whose element is not a character.                                 *)
(***************************************************************************)
EXTENDS Integers, Sequences, FiniteSets, TLC

None == << "None" >>

\* The characters outside ASCII that the program names: each stands as the
\* string of its code point.  nbsp is the no-break space; the punctuation is
\* full-width or CJK; the rest are the Chinese characters of the patterns.
Char ==
    [nbsp |-> "U+00A0", fwLParen |-> "U+FF08", fwRParen |-> "U+FF09",
     lLentic |-> "U+3010", rLentic |-> "U+3011", lAngle |-> "U+300A",
     rAngle |-> "U+300B", fwColon |-> "U+FF1A", nian |-> "U+5E74",
     yue |-> "U+6708", ri |-> "U+65E5", di |-> "U+7B2C", qi |-> "U+671F",
     ji |-> "U+96C6", hui |-> "U+56DE", chong |-> "U+91CD", bo |-> "U+64AD",
     shou |-> "U+9996", zhi |-> "U+76F4", zan |-> "U+6682", wu |-> "U+65E0",
     jie |-> "U+8282", mu |-> "U+76EE", miao |-> "U+63CF", shu |-> "U+8FF0",
     jian |-> "U+7B80", jieShao |-> "U+4ECB", nei |-> "U+5185",
     rong |-> "U+5BB9"]

Min(S) == CHOOSE x \in S : \A y \in S : x <= y

Max(S) == CHOOSE x \in S : \A y \in S : x >= y

(***************************************************************************)
(* Character classes of Python's re module and of str.strip, restricted to *)
(* the characters the model's inputs are written with.                     *)
(***************************************************************************)
Whitespace == {" ", Char.nbsp}

Digits == {"0", "1", "2", "3", "4", "5", "6", "7", "8", "9"}

UpperCase == << "A", "B", "C", "D", "E", "F", "G", "H", "I", "J", "K", "L", "M",
                "N", "O", "P", "Q", "R", "S", "T", "U", "V", "W", "X", "Y", "Z" >>

LowerCase == << "a", "b", "c", "d", "e", "f", "g", "h", "i", "j", "k", "l", "m",
                "n", "o", "p", "q", "r", "s", "t", "u", "v", "w", "x", "y", "z" >>

\* str.lower on one character
LowerChar(c) ==
    IF \E i \in 1..Len(UpperCase) : UpperCase[i] = c
    THEN LowerCase[CHOOSE i \in 1..Len(UpperCase) : UpperCase[i] = c]
    ELSE c

\* str.lower
Lower(s) == [i \in 1..Len(s) |-> LowerChar(s[i])]

\* the text without the characters of class cls (re.sub(r'[cls]', '', text))
RECURSIVE RemoveChars(_, _)
RemoveChars(s, cls) ==
    IF s = << >> THEN << >>
    ELSE IF Head(s) \in cls THEN RemoveChars(Tail(s), cls)
         ELSE << Head(s) >> \o RemoveChars(Tail(s), cls)

\* str.strip
Strip(s) ==
    LET keep == {i \in 1..Len(s) : s[i] \notin Whitespace}
    IN  IF keep = {} THEN << >> ELSE SubSeq(s, Min(keep), Max(keep))

\* Python truthiness of an optional text: None and "" are falsy
Truthy(text) == text # None /\ text # << >>

(***************************************************************************)
(* DescExtractor.normalize                                                 *)
(***************************************************************************)
NormalizeClass ==
    Whitespace \cup {"-", "_", "+", "|", "(", ")", Char.fwLParen, Char.fwRParen, "[", "]",
                     Char.lLentic, Char.rLentic, Char.lAngle, Char.rAngle, ":", Char.fwColon}

\* faulty variant: letter case is kept
normalize_cased(text) ==
    IF ~Truthy(text) THEN << >>
    ELSE RemoveChars(text, NormalizeClass)

\* faulty variant: an absent or empty text is returned as it is
normalize_keeps_absent(text) ==
    IF ~Truthy(text) THEN text
    ELSE Lower(RemoveChars(text, NormalizeClass))

normalize(text) ==
    IF ~Truthy(text) THEN << >>
    ELSE Lower(RemoveChars(text, NormalizeClass))

(***************************************************************************)
(* html.unescape, for the named character references the inputs can hold:  *)
(* the regular expression &([^\t\n\f <&#;]{1,32};?) and _replace_charref.  *)
(***************************************************************************)
MaxNameLen == 32

NotNameChars == {" ", "<", "&", "#", ";"}

html5 ==
    << << <<"a", "m", "p", ";">>, <<"&">> >>,
       << <<"a", "m", "p">>, <<"&">> >>,
       << <<"l", "t", ";">>, <<"<">> >>,
       << <<"l", "t">>, <<"<">> >>,
       << <<"g", "t", ";">>, <<">">> >>,
       << <<"g", "t">>, <<">">> >>,
       << <<"q", "u", "o", "t", ";">>, <<"\"">> >>,
       << <<"q", "u", "o", "t">>, <<"\"">> >>,
       << <<"n", "b", "s", "p", ";">>, <<Char.nbsp>> >>,
       << <<"n", "b", "s", "p">>, <<Char.nbsp>> >>,
       << <<"a", "p", "o", "s", ";">>, <<"'">> >> >>

InHtml5(name) == \E i \in 1..Len(html5) : html5[i][1] = name

Html5Value(name) == html5[CHOOSE i \in 1..Len(html5) : html5[i][1] = name][2]

\* html._replace_charref on the text after the ampersand
ReplaceCharref(s) ==
    IF InHtml5(s) THEN Html5Value(s)
    ELSE LET xs == {x \in 2..(Len(s) - 1) : InHtml5(SubSeq(s, 1, x))}
         IN  IF xs = {} THEN <<"&">> \o s
             ELSE Html5Value(SubSeq(s, 1, Max(xs))) \o SubSeq(s, Max(xs) + 1, Len(s))

\* how many name characters follow position i (at most MaxNameLen)
NameRun(s, i) ==
    LET stops == {j \in (i + 1)..Len(s) : s[j] \in NotNameChars}
        until == IF stops = {} THEN Len(s) ELSE Min(stops) - 1
    IN  IF until - i > MaxNameLen THEN MaxNameLen ELSE until - i

RECURSIVE UnescapeFrom(_, _)
UnescapeFrom(s, i) ==
    IF i > Len(s) THEN << >>
    ELSE IF s[i] = "&" /\ NameRun(s, i) > 0
         THEN LET n    == NameRun(s, i)
                  semi == IF i + n + 1 <= Len(s) /\ s[i + n + 1] = ";" THEN 1 ELSE 0
              IN  ReplaceCharref(SubSeq(s, i + 1, i + n + semi))
                      \o UnescapeFrom(s, i + n + semi + 1)
         ELSE << s[i] >> \o UnescapeFrom(s, i + 1)

unescape(s) == UnescapeFrom(s, 1)

(***************************************************************************)
(* DescExtractor.fix_html_entities                                         *)
(***************************************************************************)
MaxDecode == 10

\* faulty variant of the loop: one decoding only
DecodeOnce(fixed, n) == unescape(fixed)

\* the loop of lines 79-83: decode until a step changes nothing, n times at most
RECURSIVE DecodeLoop(_, _)
DecodeLoop(fixed, n) ==
    IF n = 0 THEN fixed
    ELSE LET decoded == unescape(fixed)
         IN  IF decoded = fixed THEN fixed ELSE DecodeLoop(decoded, n - 1)

\* does old occur in s at position i
OccursAt(s, old, i) ==
    /\ i + Len(old) - 1 <= Len(s)
    /\ SubSeq(s, i, i + Len(old) - 1) = old

\* str.replace(old, new)
RECURSIVE ReplaceFrom(_, _, _, _)
ReplaceFrom(s, old, new, i) ==
    IF i > Len(s) THEN << >>
    ELSE IF OccursAt(s, old, i) THEN new \o ReplaceFrom(s, old, new, i + Len(old))
         ELSE << s[i] >> \o ReplaceFrom(s, old, new, i + 1)

replacements ==
    << << <<"<">>, <<Char.lAngle>> >>,
       << <<">">>, <<Char.rAngle>> >>,
       << <<"&", "l", "t", ";">>, <<Char.lAngle>> >>,
       << <<"&", "g", "t", ";">>, <<Char.rAngle>> >>,
       << <<"&", "q", "u", "o", "t", ";">>, <<"\"">> >>,
       << <<"&", "a", "p", "o", "s", ";">>, <<"'">> >>,
       << <<"&", "n", "b", "s", "p", ";">>, <<" ">> >>,
       << <<"&", "a", "m", "p", ";">>, <<"&">> >> >>

RECURSIVE ApplyReplacements(_, _)
ApplyReplacements(s, k) ==
    IF k > Len(replacements) THEN s
    ELSE ApplyReplacements(ReplaceFrom(s, replacements[k][1], replacements[k][2], 1), k + 1)

\* re.sub(r'\s+', ' ', s)
RECURSIVE CollapseWhitespace(_)
CollapseWhitespace(s) ==
    IF s = << >> THEN << >>
    ELSE IF Head(s) \in Whitespace
         THEN IF Len(s) > 1 /\ s[2] \in Whitespace
              THEN CollapseWhitespace(Tail(s))
              ELSE << " " >> \o CollapseWhitespace(Tail(s))
         ELSE << Head(s) >> \o CollapseWhitespace(Tail(s))

fix_html_entities(text) ==
    IF ~Truthy(text) THEN text
    ELSE Strip(CollapseWhitespace(ApplyReplacements(DecodeLoop(text, MaxDecode), 1)))

(***************************************************************************)
(* DescExtractor.is_valid_desc                                             *)
(***************************************************************************)
MinDescLen == 5

invalid_desc_patterns ==
    << <<Char.zan, Char.wu, Char.jie, Char.mu, Char.miao, Char.shu>>,
       <<Char.zan, Char.wu, Char.miao, Char.shu>>,
       <<Char.zan, Char.wu, Char.jian, Char.jieShao>>,
       <<Char.zan, Char.wu, Char.nei, Char.rong>>,
       <<Char.wu, Char.jie, Char.mu, Char.miao, Char.shu>>,
       <<Char.wu, Char.miao, Char.shu>>,
       <<Char.wu, Char.jian, Char.jieShao>> >>

\* re.match(pattern, s, re.IGNORECASE) for a pattern ^literal
StartsWithIgnoreCase(s, literal) ==
    /\ Len(literal) <= Len(s)
    /\ Lower(SubSeq(s, 1, Len(literal))) = Lower(literal)

MatchesPlaceholder(s) ==
    \E k \in 1..Len(invalid_desc_patterns) : StartsWithIgnoreCase(s, invalid_desc_patterns[k])

\* faulty variants of the test: no minimum length; no placeholder phrases
is_valid_desc_any_length(desc) ==
    /\ Truthy(desc)
    /\ ~MatchesPlaceholder(Strip(desc))

is_valid_desc_no_patterns(desc) ==
    /\ Truthy(desc)
    /\ Len(Strip(desc)) >= MinDescLen

is_valid_desc(desc) ==
    /\ Truthy(desc)
    /\ Len(Strip(desc)) >= MinDescLen
    /\ ~MatchesPlaceholder(Strip(desc))

(***************************************************************************)
(* Regular expressions of the title cleaner.  Every pattern is a           *)
(* concatenation of quantified character classes anchored at the end of    *)
(* the text: a pattern is a sequence of [cls, lo, hi], hi = Unbounded for  *)
(* an open quantifier.  re.sub removes the match that starts leftmost,     *)
(* that is the longest suffix of the text the pattern matches.             *)
(***************************************************************************)
Unbounded == 0 - 1

Item(cls, lo, hi) == [cls |-> cls, lo |-> lo, hi |-> hi]

\* does s[i..Len(s)] match the items re[k..Len(re)] up to the end of s
RECURSIVE MatchAt(_, _, _, _)
MatchAt(s, i, re, k) ==
    IF k > Len(re) THEN i = Len(s) + 1
    ELSE LET rest == Len(s) - i + 1
             hi   == IF re[k].hi = Unbounded \/ re[k].hi > rest THEN rest ELSE re[k].hi
         IN  \E n \in re[k].lo..hi :
                /\ \A j \in i..(i + n - 1) : s[j] \in re[k].cls
                /\ MatchAt(s, i + n, re, k + 1)

\* re.sub(pattern + '$', '', s)
StripSuffix(s, re) ==
    LET starts == {i \in 1..Len(s) : MatchAt(s, i, re, 1)}
    IN  IF starts = {} THEN s ELSE SubSeq(s, 1, Min(starts) - 1)

RECURSIVE StripAll(_, _, _)
StripAll(s, patterns, k) ==
    IF k > Len(patterns) THEN s
    ELSE StripAll(StripSuffix(s, patterns[k]), patterns, k + 1)

Spaces == Item(Whitespace, 0, Unbounded)

OpenParen == Item({"(", Char.fwLParen}, 0, 1)

CloseParen == Item({")", Char.fwRParen}, 0, 1)

date_patterns ==
    << << Spaces, OpenParen, Item(Digits, 4, 4), Item({"-", ".", "/", Char.nian}, 1, 1),
          Item(Digits, 1, 2), Item({"-", ".", "/", Char.yue}, 1, 1), Item(Digits, 1, 2),
          Item({Char.ri}, 0, 1), CloseParen, Spaces >>,
       << Spaces, OpenParen, Item(Digits, 8, 8), CloseParen, Spaces >>,
       << Spaces, OpenParen, Item(Digits, 4, 4), Item({"-", ".", "/"}, 1, 1),
          Item(Digits, 1, 2), Item({"-", ".", "/"}, 1, 1), Item(Digits, 1, 2),
          CloseParen, Spaces >>,
       << Spaces, Item(Digits, 1, 2), Item({"-", ".", "/", Char.yue}, 1, 1),
          Item(Digits, 1, 2), Item({Char.ri}, 0, 1), Spaces >> >>

\* compiled with re.IGNORECASE: E and P also match e and p
episode_patterns ==
    << << Spaces, Item({Char.di}, 0, 1), Item(Digits, 6, Unbounded), Item({Char.qi}, 0, 1), Spaces >>,
       << Spaces, Item({"(", Char.fwLParen}, 1, 1), Item(Digits, 6, Unbounded),
          Item({")", Char.fwRParen}, 1, 1), Spaces >>,
       << Spaces, Item({Char.di}, 1, 1), Item(Digits, 1, 4), Item({Char.qi}, 1, 1), Spaces >>,
       << Spaces, Item({Char.di}, 1, 1), Item(Digits, 1, 4), Item({Char.ji}, 1, 1), Spaces >>,
       << Spaces, Item({"E", "e"}, 1, 1), Item({"P", "p"}, 0, 1), Item(Digits, 1, 4), Spaces >>,
       << Spaces, Item({"("}, 1, 1), Item(Digits, 1, 4), Item({")"}, 1, 1), Spaces >>,
       << Spaces, Item({"(", Char.fwLParen}, 1, 1), Item(Digits, 1, 3),
          Item({")", Char.fwRParen}, 1, 1), Spaces >>,
       << Spaces, Item({Char.di}, 1, 1), Item(Digits, 1, 3), Item({Char.hui}, 1, 1), Spaces >> >>

year_pattern == << Spaces, Item(Digits, 4, 4), Spaces >>

marker_patterns ==
    << << Spaces, OpenParen, Item({Char.chong}, 1, 1), Item({Char.bo}, 1, 1), CloseParen, Spaces >>,
       << Spaces, OpenParen, Item({Char.shou}, 1, 1), Item({Char.bo}, 1, 1), CloseParen, Spaces >>,
       << Spaces, OpenParen, Item({Char.zhi}, 1, 1), Item({Char.bo}, 1, 1), CloseParen, Spaces >> >>

trailing_number_pattern == << Spaces, Item(Digits, 1, 2), Spaces >>

MinTitleLen == 2

(***************************************************************************)
(* DescExtractor.clean_program_title: <<cleaned, original, is_cleaned>>    *)
(***************************************************************************)
\* lines 139-168: the date, episode, year and marker patterns, in this order
strip_marks(cleaned) ==
    StripAll(StripSuffix(StripAll(StripAll(cleaned, date_patterns, 1), episode_patterns, 1),
                         year_pattern),
             marker_patterns, 1)

\* lines 171-173: the trailing number goes unless too little would be left
strip_number(cleaned, new_cleaned) ==
    IF Strip(new_cleaned) # << >> /\ Len(new_cleaned) >= MinTitleLen
    THEN new_cleaned ELSE cleaned

\* faulty variant: a result of fewer than two characters is kept
revert_never(original, cleaned) == cleaned

\* lines 177-178: a result of fewer than two characters gives way to the original
revert_short(original, cleaned) ==
    IF Len(cleaned) < MinTitleLen THEN original ELSE cleaned

\* lines 180-182
cleaning(original, cleaned) == << cleaned, original, cleaned # original >>

\* lines 136-182, original being title.strip() and marked strip_marks(original)
clean_stripped(original, marked) ==
    cleaning(original,
             revert_short(original,
                          Strip(strip_number(marked,
                                             StripSuffix(marked, trailing_number_pattern)))))

clean_program_title(title) ==
    IF ~Truthy(title) THEN << << >>, << >>, FALSE >>
    ELSE clean_stripped(Strip(title), strip_marks(Strip(title)))

(***************************************************************************)
(* Dictionaries: a dict is a function, its keys the domain.                *)
(***************************************************************************)
EmptyDict == [k \in {} |-> {}]

Put(d, k, v) == [x \in (DOMAIN d) \cup {k} |-> IF x = k THEN v ELSE d[x]]

(***************************************************************************)
(* The inputs of a run.  A feed (XMLTV document) has channel elements,     *)
(* each with an id and its display-name texts in document order, and       *)
(* programme elements, each with a channel reference, a title text and a   *)
(* desc text (None for a missing element or an empty text).                *)
(***************************************************************************)
NameCCTV1 == <<"C", "C", "T", "V", "-", "1">>

NameCCTV1Plain == <<"C", "C", "T", "V", "1">>

NameOne == <<"O", "n", "e">>

NameCCTV2 == <<" ", "C", "C", "T", "V", "2">>

NameOther == <<"O", "t", "h", "e", "r">>

Channel(id, names) == [id |-> id, display_names |-> names]

\* two channels, the first with an alias
RefPlain == << Channel("r1", <<NameCCTV1, NameOne>>), Channel("r2", <<NameCCTV2>>) >>

\* the second channel's name normalizes to the key of the first channel's name
RefCollide == << Channel("r1", <<NameCCTV1, NameOne>>), Channel("r2", <<NameCCTV1Plain>>) >>

\* a display name of no letter or digit: its alias key is the empty key
NameDash == <<"-">>

\* a reference feed with such a display name for a second name of a channel
RefDash == << Channel("r1", <<NameCCTV1, NameDash>>) >>

ReferenceFeeds == {RefPlain, RefCollide}

SourceA == << Channel("c1", <<NameOne>>), Channel("c2", <<NameOther>>) >>

SourceB == << Channel("c1", <<NameCCTV1, NameOne>>), Channel("c2", <<NameCCTV2>>) >>

SourceFeeds == {SourceA, SourceB}

\* channel references of programmes; c9 is no channel of any source feed
ChannelRefs == {"c1", "c2", "c9"}

TitleNews1 == <<"N", "e", "w", "s", "(", "1", ")">>

TitleNewsDate == <<"n", "e", "-", "w", "s", " ", "2", "0", "2", "4", "-", "0", "5", "-", "0", "1">>

TitleA1 == <<"A", "(", "1", ")">>

TitleA == <<"A">>

Titles == {None, TitleNews1, TitleNewsDate, TitleA1}

\* repairs to a&b: long as written, 3 characters once repaired
DescEsc3 == <<"a", "&", "a", "m", "p", ";", "a", "m", "p", ";", "b">>

\* a placeholder phrase followed by two more characters
DescPlaceholder == <<Char.zan, Char.wu, Char.miao, Char.shu, "a", "b">>

\* repairs to the 5 characters <<Char.lAngle, "a", "b", "c", Char.rAngle>>
DescEsc5 == <<"&", "a", "m", "p", ";", "l", "t", ";", "a", "b", "c", "&", "g", "t", ";">>

Desc6 == <<"a", "b", "c", "d", "e", "f">>

Desc5 == <<"a", "b", "c", "d", "e">>

Descs == {None, DescEsc3, DescPlaceholder, DescEsc5, Desc6}

Programme(cid, title, desc) == [channel |-> cid, title |-> title, desc |-> desc]

Programmes == {Programme(c, t, d) : c \in ChannelRefs, t \in Titles, d \in Descs}

\* faulty variant of lines 312-316: the record is stored with its channel and
\* title, the desc is to follow
record_without_desc(channel, title, desc) == [channel |-> channel, title |-> title]

Record(channel, title, desc) == [channel |-> channel, title |-> title, desc |-> desc]

\* A JSON number where the store has the programmes of a channel.  It is
\* written as a mapping with the one key None, which no text equals.
JsonNumber == Put(EmptyDict, None, [number |-> 1])

\* v is a mapping: len(v) and "key in v" do not raise
IsMapping(v) == None \notin DOMAIN v

\* prior snapshots at the output path: no file, a snapshot written by an
\* earlier run, a snapshot with a record that has lost its desc field, a file
\* that is no JSON document, and a snapshot with a number for a channel
File(content) == [exists |-> TRUE, json |-> TRUE, content |-> content]

NoFile == [exists |-> FALSE, json |-> FALSE, content |-> EmptyDict]

Corrupt == [exists |-> TRUE, json |-> FALSE, content |-> EmptyDict]

SnapGood ==
    File(Put(EmptyDict, normalize(NameCCTV1),
             Put(EmptyDict, <<"n", "e", "w", "s">>,
                 Record(NameCCTV1, <<"N", "e", "w", "s">>, Desc5))))

SnapNoDesc ==
    File(Put(EmptyDict, normalize(NameCCTV1),
             Put(EmptyDict, <<"n", "e", "w", "s">>,
                 [channel |-> NameCCTV1, title |-> <<"N", "e", "w", "s">>])))

SnapNumber == File(Put(EmptyDict, <<"a">>, JsonNumber))

Snapshots == {NoFile, SnapGood, SnapNoDesc}

MaxSources == 2

MaxProgrammes == 2

(***************************************************************************)
(* The state of one run of DescExtractor.  self.stats and the counters of  *)
(* extract_from_source are written and logged but never read back by the   *)
(* run, and are left out.                                                  *)
(*   pc              where run() stands                                    *)
(*   config          the loaded configuration                              *)
(*   disk            the snapshot file at the output path                  *)
(*   target_channels self.target_channels, the alias table                 *)
(*   desc_db         self.desc_db, the description store                   *)
(*   channel_map     channel_map of the source being extracted             *)
(*   last            the statement that ended the last pass of the         *)
(*                   programme loop                                        *)
(*   sources         how many desc_sources entries have been taken         *)
(*   programmes      how many programme elements have been taken           *)
(* The inputs still to come, for the runs whose sources are fixed          *)
(* beforehand:                                                             *)
(*   script          the desc_sources entries not yet taken, each a feed   *)
(*                   with its channel and programme elements               *)
(*   plan            the programme elements of the source being extracted  *)
(*                   that are not yet taken, in document order             *)
(*   pending         the same as a set, for a source whose order is open   *)
(* History:                                                                *)
(*   scenario        the inputs the run was started with                   *)
(*   offers          per key, the descriptions that reached the merge      *)
(*                   rule, the loaded one first                            *)
(*   passes          the store as it was each time a source was left       *)
(*   returned        what the last call of normalize, fix_html_entities or *)
(*                   clean_program_title from outside run() was given and  *)
(*                   returned, and how many such calls were made           *)
(*                                                                         *)
(* The repository holds two more programs, each with a state of its own:   *)
(*                                                                         *)
(*   fetcher         the process of scripts/fetch_epg_desc.py: its         *)
(*                   globals, the locals of main(), the two files it       *)
(*                   writes and what it sent to the API                    *)
(*   crawler         a TvmaoEPGCrawler: which of the two crawlers it is    *)
(*                   and its list of programmes                            *)
(***************************************************************************)
VARIABLES pc, config, disk, target_channels, desc_db, channel_map, last, sources, programmes,
          script, plan, pending, scenario, offers, passes, returned, fetcher, crawler

run_vars == << pc, config, disk, target_channels, desc_db, channel_map, last, sources,
               programmes, offers >>

input_vars == << script, plan, pending, scenario >>

history_vars == << passes, returned >>

\* the state of the two other programs of the repository
others == << fetcher, crawler >>

vars == << run_vars, input_vars, history_vars, others >>

\* the keys of a store, as <<normalized channel, normalized title>>
Keys(db) == UNION {{<<c, t>> : t \in DOMAIN db[c]} : c \in DOMAIN db}

HasDesc(rec) == "desc" \in DOMAIN rec

(***************************************************************************)
(* DescExtractor.load_target_channels, lines 226-239                       *)
(***************************************************************************)
\* faulty variant of the inner loop: an alias already registered is kept
RECURSIVE RegisterNamesOnce(_, _, _, _)
RegisterNamesOnce(table, display_names, first_name, j) ==
    IF j > Len(display_names) THEN table
    ELSE IF Truthy(display_names[j])
              /\ normalize(Strip(display_names[j])) \notin DOMAIN table
         THEN RegisterNamesOnce(Put(table, normalize(Strip(display_names[j])), first_name),
                                display_names, first_name, j + 1)
         ELSE RegisterNamesOnce(table, display_names, first_name, j + 1)

\* the inner loop over the display names of one channel
RECURSIVE RegisterNames(_, _, _, _)
RegisterNames(table, display_names, first_name, j) ==
    IF j > Len(display_names) THEN table
    ELSE IF Truthy(display_names[j])
         THEN RegisterNames(Put(table, normalize(Strip(display_names[j])), first_name),
                            display_names, first_name, j + 1)
         ELSE RegisterNames(table, display_names, first_name, j + 1)

\* the outer loop over the channel elements
RECURSIVE RegisterChannels(_, _, _)
RegisterChannels(table, channels, k) ==
    IF k > Len(channels) THEN table
    ELSE LET display_names == channels[k].display_names
             first_name    == IF display_names # << >> /\ Truthy(display_names[1])
                              THEN Strip(display_names[1]) ELSE None
         IN  IF display_names = << >> \/ ~Truthy(first_name)
             THEN RegisterChannels(table, channels, k + 1)
             ELSE RegisterChannels(RegisterNames(table, display_names, first_name, 1),
                                   channels, k + 1)

(***************************************************************************)
(* DescExtractor.get_canonical_channel                                     *)
(***************************************************************************)
\* faulty variant: a name the alias table does not hold is in scope as it is
get_canonical_channel_open(channel_name) ==
    LET norm == normalize(channel_name)
    IN  IF norm \in DOMAIN target_channels
        THEN << target_channels[norm], TRUE >>
        ELSE << channel_name, TRUE >>

get_canonical_channel(channel_name) ==
    LET norm == normalize(channel_name)
    IN  IF norm \in DOMAIN target_channels
        THEN << target_channels[norm], TRUE >>
        ELSE << channel_name, FALSE >>

(***************************************************************************)
(* DescExtractor.extract_from_source, lines 263-268: the channel map       *)
(***************************************************************************)
RECURSIVE BuildChannelMap(_, _, _)
BuildChannelMap(map, channels, k) ==
    IF k > Len(channels) THEN map
    ELSE LET ch == channels[k]
         IN  IF ch.display_names # << >> /\ Truthy(ch.display_names[1])
             THEN BuildChannelMap(Put(map, ch.id, Strip(ch.display_names[1])), channels, k + 1)
             ELSE BuildChannelMap(map, channels, k + 1)

(***************************************************************************)
(* The merge rule, lines 305-320.                                          *)
(***************************************************************************)
\* faulty variants of the comparison: any other length wins; a tie wins
longer_differs(desc, stored) == Len(desc) # Len(stored)

longer_or_equal(desc, stored) == Len(desc) >= Len(stored)

\* line 319: the new desc replaces the stored one
longer(desc, stored) == Len(desc) > Len(stored)

\* faulty variant of the extension: the whole record is written anew
extended_rewritten(record, canonical_name, cleaned_title, desc) ==
    Record(canonical_name, cleaned_title, desc)

\* line 320: the record once extended
extended(record, canonical_name, cleaned_title, desc) == [record EXCEPT !.desc = desc]

\* The result is the store and the branch taken; reading the desc of a stored
\* record that has none raises KeyError, and looking a title up in a number
\* raises TypeError.
\* what one pass of the loop did: the store it leaves, the statement that
\* ended it, and the key and desc it brought to the merge
Pass(db, branch, key, desc) == [db |-> db, branch |-> branch, key |-> key, desc |-> desc]

NoKey == << << >>, << >> >>

\* lines 302-320
upsert(db, canonical_name, cleaned_title, desc) ==
    LET norm_channel == normalize(canonical_name)
        norm_title   == normalize(cleaned_title)
        key          == << norm_channel, norm_title >>
        titles       == IF norm_channel \in DOMAIN db THEN db[norm_channel] ELSE EmptyDict
    IN  IF ~IsMapping(titles)
        THEN Pass(db, "raised", key, desc)
        ELSE IF norm_title \notin DOMAIN titles
        THEN Pass(Put(db, norm_channel,
                      Put(titles, norm_title, Record(canonical_name, cleaned_title, desc))),
                  "inserted", key, desc)
        ELSE IF ~HasDesc(titles[norm_title])
        THEN Pass(db, "raised", key, desc)
        ELSE IF longer(desc, titles[norm_title].desc)
        THEN Pass(Put(db, norm_channel,
                      Put(titles, norm_title,
                          extended(titles[norm_title], canonical_name, cleaned_title, desc))),
                  "extended", key, desc)
        ELSE Pass(db, "kept", key, desc)

\* the offers of a loaded store: the stored desc of every record that has one
LoadedOffers(db) ==
    [key \in {k \in Keys(db) : HasDesc(db[k[1]][k[2]])} |-> << db[key[1]][key[2]].desc >>]

Offer(off, key, desc) ==
    Put(off, key, IF key \in DOMAIN off THEN Append(off[key], desc) ELSE << desc >>)

(***************************************************************************)
(* The texts of the inputs after the pure steps of the loop body, computed *)
(* once: lines 289-300.                                                    *)
(***************************************************************************)
AllDescs == Descs \cup {Desc5}

AllTitles == Titles \cup {TitleA}

\* line 290 and 293: desc = fix_html_entities(desc_elem.text.strip())
RECURSIVE RepairedTable(_)
RepairedTable(ds) ==
    IF ds = {} THEN << >>
    ELSE LET d == CHOOSE x \in ds : TRUE
         IN  (d :> fix_html_entities(Strip(d))) @@ RepairedTable(ds \ {d})

RepairedDescs == RepairedTable(AllDescs \ {None})

RepairedDesc(d) == RepairedDescs[d]

\* line 289 and 300: clean_program_title(title_elem.text.strip())
RECURSIVE CleanedTable(_)
CleanedTable(ts) ==
    IF ts = {} THEN << >>
    ELSE LET t == CHOOSE x \in ts : TRUE
         IN  (t :> clean_program_title(Strip(t))) @@ CleanedTable(ts \ {t})

CleanedTitles == CleanedTable(AllTitles \ {None})

CleanedTitle(t) == CleanedTitles[t]

\* line 275: the display name of the channel cid in this source
source_channel_name(cid) ==
    IF cid \in DOMAIN channel_map THEN channel_map[cid] ELSE << >>

\* the statement of is_valid_desc that rejects desc
Rejection(desc) ==
    IF ~Truthy(desc) \/ Len(Strip(desc)) < MinDescLen THEN "too_short" ELSE "placeholder"

\* lines 296-320: the repaired desc is validated and merged
offer(db, canonical_name, cleaned_title, desc) ==
    IF ~is_valid_desc(desc) THEN Pass(db, Rejection(desc), NoKey, << >>)
    ELSE upsert(db, canonical_name, cleaned_title, desc)

\* lines 274-320: one pass of the loop over the programme elements, on store db
programme_pass(db, p) ==
    LET resolved == get_canonical_channel(source_channel_name(p.channel))
    IN  IF ~resolved[2] THEN Pass(db, "not_target", NoKey, << >>)
        ELSE IF ~Truthy(p.title) THEN Pass(db, "no_title", NoKey, << >>)
        ELSE IF ~Truthy(p.desc) THEN Pass(db, "no_desc", NoKey, << >>)
        ELSE offer(db, resolved[1], CleanedTitle(p.title)[1], RepairedDesc(p.desc))

(***************************************************************************)
(* The steps of run().  They leave the inputs to come and the passes       *)
(* history to the specification that takes them.                           *)
(***************************************************************************)
\* reference_epg of the configuration: absent, or declared, with what
\* download_epg and the parser make of it: "ok" and the channel elements,
\* "no_url" for an entry without url, "failed" for a download that returns
\* nothing, "unparsable" for a document ET.fromstring rejects
NoReference == [declared |-> FALSE, fetch |-> "none", feed |-> << >>]

Reference(feed) == [declared |-> TRUE, fetch |-> "ok", feed |-> feed]

ReferenceFailing(fetch) == [declared |-> TRUE, fetch |-> fetch, feed |-> << >>]

\* existing_db of the configuration: absent; a local path, with the snapshot
\* the file at that path holds; or a URL, with the response to the request of
\* line 335: "unreachable" when requests.get raises, "not_found" for a status
\* other than 200, "not_json" when response.json() raises, "json" and the body
ExistingDb(kind, response, body) == [kind |-> kind, response |-> response, body |-> body]

NoExistingDb == ExistingDb("none", "none", EmptyDict)

Config(reference_epg, accumulate) ==
    [reference_epg |-> reference_epg, accumulate |-> accumulate,
     existing_db |-> NoExistingDb]

\* a call of a method of the extractor from outside run(): the method, the
\* argument, the value returned, and the number of calls so far
Call(method, arg, out, calls) == [method |-> method, arg |-> arg, out |-> out, calls |-> calls]

NoCall == Call("none", << >>, << >>, 0)

\* a program of the repository that is not run
NotStarted == [pc |-> "not_started"]

OthersNotStarted == fetcher = NotStarted /\ crawler = NotStarted

\* the state once DescExtractor is constructed and the configuration loaded
Constructed ==
    /\ pc = "load_target_channels"
    /\ target_channels = EmptyDict
    /\ desc_db = EmptyDict
    /\ channel_map = EmptyDict
    /\ last = "none"
    /\ offers = EmptyDict
    /\ sources = 0
    /\ programmes = 0
    /\ passes = << >>
    /\ returned = NoCall

\* faulty variant of lines 412-416: the result of load_target_channels is
\* not looked at
run_regardless(loaded, accumulate) ==
    IF accumulate THEN "load_existing_db" ELSE "desc_sources"

\* faulty variant of lines 412-416: the store is never loaded
run_skips_load(loaded, accumulate) ==
    IF ~loaded THEN "exit_failure" ELSE "desc_sources"

\* lines 412-416: where run() goes once load_target_channels has returned
\* loaded; with False, run() returns False and main() exits with status 1
after_load_target_channels(loaded, accumulate) ==
    IF ~loaded THEN "exit_failure"
    ELSE IF accumulate THEN "load_existing_db" ELSE "desc_sources"

\* lines 214-217 and 412-413: no reference feed declared, the run fails
load_target_channels_missing ==
    /\ pc = "load_target_channels"
    /\ ~config.reference_epg.declared
    /\ pc' = after_load_target_channels(FALSE, config.accumulate)
    /\ UNCHANGED << config, disk, target_channels, desc_db, channel_map, last, offers,
                    sources, programmes >>

\* lines 219-224, 245-247 and 412-413: the reference feed is not downloaded,
\* or is not parsed; nothing was registered, the run fails
load_target_channels_failed ==
    /\ pc = "load_target_channels"
    /\ config.reference_epg.declared
    /\ config.reference_epg.fetch \in {"failed", "unparsable"}
    /\ pc' = after_load_target_channels(FALSE, config.accumulate)
    /\ UNCHANGED << config, disk, target_channels, desc_db, channel_map, last, offers,
                    sources, programmes >>

\* line 219: reference_epg has no url; the KeyError is caught nowhere and
\* ends the process with a traceback and status 1
load_target_channels_raises ==
    /\ pc = "load_target_channels"
    /\ config.reference_epg.declared
    /\ config.reference_epg.fetch = "no_url"
    /\ pc' = "exit_exception"
    /\ UNCHANGED << config, disk, target_channels, desc_db, channel_map, last, offers,
                    sources, programmes >>

\* lines 219-243 and 412-416
load_target_channels ==
    /\ pc = "load_target_channels"
    /\ config.reference_epg.declared
    /\ config.reference_epg.fetch = "ok"
    /\ target_channels' = RegisterChannels(target_channels, config.reference_epg.feed, 1)
    /\ pc' = after_load_target_channels(TRUE, config.accumulate)
    /\ UNCHANGED << config, disk, desc_db, channel_map, last, offers, sources, programmes >>

\* lines 338, 348 and 360: sum(len(v) for v in self.desc_db.values()) does
\* not raise
Summable(db) == \A c \in DOMAIN db : IsMapping(db[c])

\* line 340: the branch of the URL returns
url_returns(existing_db) ==
    /\ existing_db.kind = "url"
    /\ existing_db.response = "json"
    /\ Summable(existing_db.body)

\* lines 332-342: self.desc_db once the branch of the URL is left; the body
\* is assigned at line 337, before it is measured
from_url(existing_db, db) ==
    IF existing_db.kind = "url" /\ existing_db.response = "json"
    THEN existing_db.body ELSE db

\* lines 344-354: self.desc_db after the branch of the file at the output path
from_file(file, db) ==
    IF ~file.exists THEN db
    ELSE IF file.json /\ Summable(file.content) THEN file.content
    ELSE EmptyDict

\* lines 329-354
existing_db_loaded(existing_db, file, db) ==
    IF url_returns(existing_db) THEN existing_db.body
    ELSE from_file(file, from_url(existing_db, db))

\* lines 329-354: the snapshot behind the URL of existing_db, or else the one
\* at the output path, if there is one
load_existing_db ==
    /\ pc = "load_existing_db"
    /\ desc_db' = existing_db_loaded(config.existing_db, disk, desc_db)
    /\ offers' = LoadedOffers(desc_db')
    /\ pc' = "desc_sources"
    /\ UNCHANGED << config, disk, target_channels, channel_map, last, sources, programmes >>

\* line 256: the entry has no url; the KeyError is raised before the try of
\* line 260, leaves extract_from_source and run(), and ends the process with
\* a traceback and status 1
source_without_url ==
    /\ pc = "desc_sources"
    /\ sources' = sources + 1
    /\ pc' = "exit_exception"
    /\ UNCHANGED << config, disk, target_channels, desc_db, channel_map, last, offers,
                    programmes >>

\* lines 256-261 and 326-327: the source is not downloaded, or is not parsed
source_unavailable ==
    /\ pc = "desc_sources"
    /\ sources' = sources + 1
    /\ UNCHANGED << pc, config, disk, target_channels, desc_db, channel_map, last, offers,
                    programmes >>

\* lines 256-271: the source is downloaded and parsed, its channel map built
begin_source(feed) ==
    /\ pc = "desc_sources"
    /\ sources' = sources + 1
    /\ channel_map' = BuildChannelMap(EmptyDict, feed, 1)
    /\ pc' = "programmes"
    /\ UNCHANGED << config, disk, target_channels, desc_db, last, offers, programmes >>

\* lines 273-320: one pass of the loop over the programme elements; an
\* exception ends the extraction of the source (line 326)
pass_taken(pass) ==
    /\ pc = "programmes"
    /\ programmes' = programmes + 1
    /\ last' = pass.branch
    /\ desc_db' = pass.db
    /\ offers' = IF pass.branch \in {"inserted", "extended", "kept"}
                 THEN Offer(offers, pass.key, pass.desc) ELSE offers
    /\ pc' = IF pass.branch = "raised" THEN "desc_sources" ELSE pc
    /\ UNCHANGED << config, disk, target_channels, channel_map, sources >>

extract_programme(p) == pass_taken(programme_pass(desc_db, p))

\* lines 322-324: the loop is over
end_source ==
    /\ pc = "programmes"
    /\ pc' = "desc_sources"
    /\ UNCHANGED << config, disk, target_channels, desc_db, channel_map, last, offers,
                    sources, programmes >>

\* lines 356-370 and 421-425: the store is written to the output path.
\* The source indents lines 357-370 one level short of a method body, so the
\* file does not compile as written; they are taken as the body of save_database.
\* Line 360 raises on a store that holds a number for a channel, before the
\* file is opened at line 362; the exception is caught nowhere.
save_database ==
    /\ pc = "desc_sources"
    /\ disk' = IF Summable(desc_db) THEN File(desc_db) ELSE disk
    /\ pc' = IF Summable(desc_db) THEN "done" ELSE "exit_exception"
    /\ UNCHANGED << config, target_channels, desc_db, channel_map, last, offers,
                    sources, programmes >>

(***************************************************************************)
(* A run over any sources: each source is one of SourceFeeds or cannot be  *)
(* downloaded, and its programme elements are any of Programmes.           *)
(***************************************************************************)
Configs ==
    {Config(r, a) : r \in {NoReference} \cup {Reference(f) : f \in ReferenceFeeds},
                    a \in BOOLEAN}

\* the configurations whose reference feed registers the empty alias key
DashConfigs == {Config(Reference(RefDash), a) : a \in BOOLEAN}

NoInputs ==
    /\ script = << >>
    /\ plan = << >>
    /\ pending = {}
    /\ scenario = << >>

Init ==
    /\ Constructed
    /\ OthersNotStarted
    /\ NoInputs
    /\ config \in Configs \cup DashConfigs
    /\ disk \in Snapshots
    /\ config.accumulate \/ disk = SnapGood

Next ==
    \/ load_target_channels_missing /\ UNCHANGED << input_vars, others, history_vars >>
    \/ load_target_channels /\ UNCHANGED << input_vars, others, history_vars >>
    \/ load_existing_db /\ UNCHANGED << input_vars, others, history_vars >>
    \/ sources < MaxSources /\ source_unavailable /\ UNCHANGED << input_vars, others, history_vars >>
    \/ \E feed \in SourceFeeds :
          sources < MaxSources /\ begin_source(feed) /\ UNCHANGED << input_vars, others, history_vars >>
    \/ \E p \in Programmes :
          programmes < MaxProgrammes /\ extract_programme(p)
              /\ UNCHANGED << input_vars, others, history_vars >>
    \/ end_source /\ UNCHANGED << input_vars, others, history_vars >>
    \/ save_database /\ UNCHANGED << input_vars, others, history_vars >>

Spec == Init /\ [][Next]_vars

(***************************************************************************)
(* Properties of the description store during a run                        *)
(***************************************************************************)
RecordAt(db, key) == db[key[1]][key[2]]

\* the canonical names of the alias table
CanonicalNames == {target_channels[alias] : alias \in DOMAIN target_channels}

\* the keys a step of the loop of extract_from_source adds to the store
Written == Keys(desc_db') \ Keys(desc_db)

\* C23: a step of ingestion writes every new record whole and under its own
\* keys: the record has the fields channel, title and desc, its channel is a
\* canonical name of the alias table, and it stands under the normalized
\* form of its channel and the normalized form of its title.  A record that
\* is there already keeps its fields channel and title, and no channel is
\* added to the store with no title under it.
C23_RecordsWrittenWhole ==
    [][pc = "programmes" =>
          /\ \A key \in Written :
                /\ DOMAIN RecordAt(desc_db', key) = {"channel", "title", "desc"}
                /\ RecordAt(desc_db', key).channel \in CanonicalNames
                /\ key[1] = normalize(RecordAt(desc_db', key).channel)
                /\ key[2] = normalize(RecordAt(desc_db', key).title)
          /\ \A key \in Keys(desc_db) \ {k \in Keys(desc_db) : k[2] = None} :
                /\ key \in Keys(desc_db')
                /\ DOMAIN RecordAt(desc_db', key) = DOMAIN RecordAt(desc_db, key)
                /\ \A field \in DOMAIN RecordAt(desc_db, key) \ {"desc"} :
                      RecordAt(desc_db', key)[field] = RecordAt(desc_db, key)[field]
          /\ \A c \in DOMAIN desc_db' : desc_db'[c] = EmptyDict => c \in DOMAIN desc_db]_vars

\* a record was inserted for a channel the store did not have, beside the
\* record of the snapshot, and then extended
C23_Witness ==
    /\ last = "extended"
    /\ Cardinality(DOMAIN desc_db) >= 2
    /\ \E key \in Keys(desc_db) :
          /\ key[1] # normalize(NameCCTV1)
          /\ Len(offers[key]) >= 2

\* C1: no step of a run removes a key of the store, and no step makes the
\* stored desc of a key shorter.
C1_KeysKeptDescNeverShorter ==
    [][\A key \in Keys(desc_db) :
          /\ key \in Keys(desc_db')
          /\ HasDesc(RecordAt(desc_db, key)) =>
                /\ HasDesc(RecordAt(desc_db', key))
                /\ Len(RecordAt(desc_db', key).desc) >= Len(RecordAt(desc_db, key).desc)]_vars

\* a record loaded from the snapshot has been extended while another key is stored
C1_Witness ==
    /\ last = "extended"
    /\ Cardinality(Keys(desc_db)) >= 2
    /\ \E key \in Keys(desc_db) : Len(offers[key]) >= 2

\* the step changes the store
StoreChanged == desc_db' # desc_db

\* the first of the longest descriptions of a sequence of offers
FirstLongest(seq) ==
    seq[Min({i \in 1..Len(seq) : \A j \in 1..Len(seq) : Len(seq[i]) >= Len(seq[j])})]

\* the programmes that offer a valid description: a title, and a desc that
\* once repaired has 5 characters or more and starts with no placeholder phrase
OfferProgrammes ==
    {p \in Programmes :
        /\ p.title # None
        /\ p.desc # None
        /\ Len(RepairedDesc(p.desc)) >= 5
        /\ ~MatchesPlaceholder(RepairedDesc(p.desc))}

InScope(cid) == normalize(source_channel_name(cid)) \in DOMAIN target_channels

KeyOf(p) ==
    << normalize(target_channels[normalize(source_channel_name(p.channel))]),
       normalize(CleanedTitle(p.title)[1]) >>

\* C2: the stored desc of a key is the first of the longest descriptions offered
\* for it, the loaded one counting as the first offer; and a programme whose
\* repaired desc is not strictly longer than the stored one changes nothing (a
\* step that changes the store is not the extraction of such a programme).
C2_FirstLongestWins ==
    /\ [](\A key \in Keys(desc_db) :
             HasDesc(RecordAt(desc_db, key)) =>
                /\ key \in DOMAIN offers
                /\ RecordAt(desc_db, key).desc = FirstLongest(offers[key]))
    /\ [][StoreChanged =>
             \A p \in OfferProgrammes :
                (/\ InScope(p.channel)
                 /\ KeyOf(p) \in Keys(desc_db)
                 /\ HasDesc(RecordAt(desc_db, KeyOf(p)))
                 /\ Len(RepairedDesc(p.desc)) <= Len(RecordAt(desc_db, KeyOf(p)).desc))
                => ~extract_programme(p)]_vars

\* a key was offered two different descriptions of the same length and kept the first
C2_Witness ==
    /\ last = "kept"
    /\ \E key \in DOMAIN offers :
          /\ Len(offers[key]) >= 2
          /\ Len(offers[key][1]) = Len(offers[key][2])
          /\ offers[key][1] # offers[key][2]

\* C3: the channel and title display strings of a stored record never change.
C3_DisplayStringsKept ==
    [][\A key \in Keys(desc_db) :
          key \in Keys(desc_db') =>
             /\ RecordAt(desc_db', key).channel = RecordAt(desc_db, key).channel
             /\ RecordAt(desc_db', key).title = RecordAt(desc_db, key).title]_vars

\* the loaded record of CCTV-1 has been extended by a programme of a source
\* that names the channel One
C3_Witness ==
    /\ last = "extended"
    /\ pc = "programmes"
    /\ "c1" \in DOMAIN channel_map /\ channel_map["c1"] = NameOne
    /\ Keys(desc_db) = Keys(SnapGood.content)
    /\ \A key \in Keys(desc_db) : RecordAt(desc_db, key).channel = NameCCTV1

\* C6: a programme whose desc is absent or has fewer than 5 characters once
\* repaired leaves the store as it was: a step that changes the store is not
\* the extraction of such a programme.
ShortProgrammes == {p \in Programmes : p.desc = None \/ Len(RepairedDesc(p.desc)) < 5}

C6_ShortDescNeverStored ==
    [][StoreChanged =>
          \A p \in ShortProgrammes : ~extract_programme(p)]_vars

\* a desc that is long as written and short once repaired has been turned
\* down while the store was still empty
C6_Witness ==
    /\ last = "too_short"
    /\ desc_db = EmptyDict

\* C7: a programme whose repaired desc starts with a placeholder phrase leaves
\* the store as it was, and no stored desc starts with a placeholder phrase.
PlaceholderProgrammes ==
    {p \in Programmes : p.desc # None /\ MatchesPlaceholder(RepairedDesc(p.desc))}

C7_PlaceholderNeverStored ==
    /\ [][StoreChanged =>
             \A p \in PlaceholderProgrammes : ~extract_programme(p)]_vars
    /\ [](\A key \in Keys(desc_db) :
             HasDesc(RecordAt(desc_db, key)) => ~MatchesPlaceholder(RecordAt(desc_db, key).desc))

C7_Witness ==
    /\ last = "placeholder"
    /\ desc_db # EmptyDict

\* the channel names a run can meet
ChannelNames == {NameCCTV1, NameCCTV1Plain, NameOne, NameCCTV2, NameOther, << >>}

ProgrammesOf(cid) == {p \in Programmes : p.channel = cid}

\* C10: a channel name whose normalized form is no key of the alias table
\* resolves to itself, out of scope, and a programme of such a channel leaves
\* the store as it was and does not end the extraction of its source: a step
\* that changes the store, moves pc or ends elsewhere than at the scope test is
\* not the extraction of such a programme.
C10_OutOfScopeDropped ==
    /\ [](\A name \in ChannelNames :
             normalize(name) \notin DOMAIN target_channels =>
                get_canonical_channel(name) = << name, FALSE >>)
    /\ [][(pc = "programmes" /\ (StoreChanged \/ pc' # pc \/ last' # "not_target")) =>
             \A cid \in ChannelRefs :
                ~InScope(cid) => \A p \in ProgrammesOf(cid) : ~extract_programme(p)]_vars

\* a programme of a channel out of scope has been passed over, the store not empty
C10_Witness ==
    /\ last = "not_target"
    /\ target_channels # EmptyDict
    /\ desc_db # EmptyDict

\* programme element p names a channel that is no channel element of the
\* source that is open: line 275 finds no display name for it
Unmatched(p) == p.channel \notin DOMAIN channel_map

\* C27: a programme element whose channel reference matches no channel
\* element of its source leaves the store as it was, whatever the reference
\* feed.
C27_UnmatchedNeverAbsorbed ==
    [][\A p \in Programmes :
          (pc = "programmes" /\ Unmatched(p) /\ extract_programme(p)) =>
             desc_db' = desc_db]_vars

(***************************************************************************)
(* The alias table of any reference feed: up to MaxRefChannels channel     *)
(* elements, each with up to MaxDisplayNames display-name elements, whose  *)
(* texts are blank or names.                                               *)
(***************************************************************************)
MaxRefChannels == 2

MaxDisplayNames == 2

Blank == << " " >>

\* normalizes to the key of NameCCTV1
NameCCTV1Spaced == <<" ", "C", "C", "T", "V", "1", " ">>

DisplayTexts == {Blank, NameCCTV1, NameCCTV1Spaced}

SeqsUpTo(S, n) == UNION {[1..m -> S] : m \in 0..n}

ResolverFeeds ==
    {[k \in 1..Len(lists) |-> Channel("r", lists[k])] :
        lists \in SeqsUpTo(SeqsUpTo(DisplayTexts, MaxDisplayNames), MaxRefChannels)}

ResolverInit ==
    /\ Constructed
    /\ OthersNotStarted
    /\ NoInputs
    /\ config \in {Config(Reference(feed), FALSE) : feed \in ResolverFeeds}
    /\ disk = NoFile

ResolverNext == load_target_channels /\ UNCHANGED << input_vars, others, history_vars >>

SpecResolver == ResolverInit /\ [][ResolverNext]_vars

\* the channel elements of the reference feed
ReferenceChannels == config.reference_epg.feed

\* the display-name texts of channel element k
NamesOf(k) == ReferenceChannels[k].display_names

\* channel element k has a first display name with text left once trimmed
Registers(k) ==
    /\ NamesOf(k) # << >>
    /\ NamesOf(k)[1] # None
    /\ NamesOf(k)[1] # << >>
    /\ Strip(NamesOf(k)[1]) # << >>

\* the display names of channel element k that have a text
TextsOf(k) == {j \in 1..Len(NamesOf(k)) : NamesOf(k)[j] # None /\ NamesOf(k)[j] # << >>}

Loaded == pc = "desc_sources"

\* C9 as the specification words it: every display name of every reference
\* channel resolves, in scope, to the first display name of that channel.
C9_ResolvesToOwnFirstName ==
    Loaded =>
       \A k \in 1..Len(ReferenceChannels) :
          Registers(k) =>
             \A j \in TextsOf(k) :
                get_canonical_channel(NamesOf(k)[j]) = << Strip(NamesOf(k)[1]), TRUE >>

\* the last channel element with a display name of the same normalized form
LastWith(alias) ==
    Max({k \in 1..Len(ReferenceChannels) :
            /\ Registers(k)
            /\ \E j \in TextsOf(k) : normalize(Strip(NamesOf(k)[j])) = alias})

\* C9: every display name of every reference channel resolves, in scope, to
\* the trimmed first display name of the last channel element of the feed
\* that has a display name of the same normalized form.
C9_ResolvesToLastFirstName ==
    Loaded =>
       \A k \in 1..Len(ReferenceChannels) :
          Registers(k) =>
             \A j \in TextsOf(k) :
                get_canonical_channel(NamesOf(k)[j]) =
                   << Strip(NamesOf(LastWith(normalize(Strip(NamesOf(k)[j]))))[1]), TRUE >>

\* a display name of one channel resolves to the first display name of a later one
C9_Witness ==
    /\ Loaded
    /\ \E k \in 1..Len(ReferenceChannels) :
          /\ Registers(k)
          /\ \E j \in TextsOf(k) :
                get_canonical_channel(NamesOf(k)[j])[1] # Strip(NamesOf(k)[1])

(***************************************************************************)
(* Reference feeds whose channels share display names: three display      *)
(* names, two of them of one normalized form.                              *)
(***************************************************************************)
CollideTexts == {NameCCTV1, NameCCTV1Plain, NameOne}

CollideFeeds ==
    {[k \in 1..Len(lists) |-> Channel("r", lists[k])] :
        lists \in SeqsUpTo(SeqsUpTo(CollideTexts, MaxDisplayNames), MaxRefChannels)}

CollideInit ==
    /\ Constructed
    /\ OthersNotStarted
    /\ NoInputs
    /\ config \in {Config(Reference(feed), FALSE) : feed \in CollideFeeds}
    /\ disk = NoFile

SpecCollide == CollideInit /\ [][ResolverNext]_vars

\* the alias key under which display name j of channel element k is registered
AliasKey(k, j) == normalize(Strip(NamesOf(k)[j]))

\* channel element k registers the alias key
RegistersKey(k, key) == Registers(k) /\ \E j \in TextsOf(k) : AliasKey(k, j) = key

\* no channel element after element k registers the alias key
NoLaterWith(k, key) == \A l \in (k + 1)..Len(ReferenceChannels) : ~RegistersKey(l, key)

\* C22: when display names of two channel elements that register have the
\* same alias key, the alias resolves to the canonical name of the later
\* element (of the last one, when more than two share the key), and a
\* display name of the earlier element whose key no later element registers
\* resolves to the canonical name of the earlier element.
C22_LaterChannelWins ==
    Loaded =>
       \A k1 \in 1..Len(ReferenceChannels) :
          Registers(k1) =>
             \A j1 \in TextsOf(k1) :
                /\ \A k2 \in (k1 + 1)..Len(ReferenceChannels) :
                      (RegistersKey(k2, AliasKey(k1, j1)) /\ NoLaterWith(k2, AliasKey(k1, j1))) =>
                         get_canonical_channel(NamesOf(k1)[j1]) =
                            << Strip(NamesOf(k2)[1]), TRUE >>
                /\ NoLaterWith(k1, AliasKey(k1, j1)) =>
                      get_canonical_channel(NamesOf(k1)[j1]) = << Strip(NamesOf(k1)[1]), TRUE >>

\* the table is built from two channel elements with differently spelled
\* display names of one alias key; the earlier element has a second display
\* name that is its own, and the two have different canonical names
C22_Witness ==
    /\ Loaded
    /\ Len(ReferenceChannels) >= 2
    /\ NamesOf(1) = << NameOne, NameCCTV1 >>
    /\ NamesOf(2)[1] = NameCCTV1Plain
    /\ get_canonical_channel(NameCCTV1) = << NameCCTV1Plain, TRUE >>
    /\ get_canonical_channel(NameOne) = << NameOne, TRUE >>

(***************************************************************************)
(* Runs whose sources are given: run() takes the desc_sources entries in   *)
(* the order of the configuration (lines 417-419), and the loop of         *)
(* extract_from_source takes the programme elements in document order.     *)
(***************************************************************************)
\* a desc_sources entry and its feed: the channel elements and the programme
\* elements of a feed that is downloaded and parsed
Feed(channels, progs) == [fetch |-> "ok", channels |-> channels, programmes |-> progs]

\* an entry whose feed is not to be had: "no_url" for an entry without url,
\* "failed" for a download that returns nothing, "unparsable" for a document
\* ET.fromstring rejects (a failed decompression leaves such a document)
Unfetched(fetch) == [fetch |-> fetch, channels |-> << >>, programmes |-> << >>]

\* lines 417-419 and 256-271: the next source of the script is opened
scripted_source ==
    /\ script # << >>
    /\ Head(script).fetch = "ok"
    /\ begin_source(Head(script).channels)
    /\ script' = Tail(script)
    /\ plan' = Head(script).programmes
    /\ UNCHANGED << pending, scenario, others, history_vars >>

\* lines 273-320: the next programme element of the source
scripted_programme ==
    /\ plan # << >>
    /\ extract_programme(Head(plan))
    /\ plan' = IF pc' = "programmes" THEN Tail(plan) ELSE << >>
    /\ passes' = IF pc' = "programmes" THEN passes ELSE Append(passes, desc_db')
    /\ UNCHANGED << script, pending, scenario, others, returned >>

\* faulty variant of lines 418-419: run() goes on to the next entry while
\* programme elements of the open source are still to be upserted
scripted_end_early ==
    /\ end_source
    /\ passes' = Append(passes, desc_db)
    /\ UNCHANGED << input_vars, others, returned >>

\* lines 322-324: no programme element is left
scripted_end ==
    /\ plan = << >>
    /\ end_source
    /\ passes' = Append(passes, desc_db)
    /\ UNCHANGED << input_vars, others, returned >>

\* lines 421-425: no source is left
scripted_save ==
    /\ script = << >>
    /\ save_database
    /\ UNCHANGED << input_vars, others, history_vars >>

ScriptedNext ==
    \/ load_target_channels /\ UNCHANGED << input_vars, others, history_vars >>
    \/ load_existing_db /\ UNCHANGED << input_vars, others, history_vars >>
    \/ scripted_source
    \/ scripted_programme
    \/ scripted_end
    \/ scripted_save

\* the configurations with a reference feed
RunConfigs == {c \in Configs : c.reference_epg.declared}

(***************************************************************************)
(* Two sources of one programme each, for one programme of one reference   *)
(* channel: each source names the channel by one of its display names and  *)
(* spells the title in one of its variants.                                *)
(***************************************************************************)
\* the spellings of one title: they differ by an episode marker or a date at
\* the end, by spacing, punctuation and case
TitleVariants == {{TitleNews1, TitleNewsDate}, {TitleA1, TitleA}}

\* the title without the episode marker or the date at its end
Stem(title) ==
    IF title = TitleNews1 THEN <<"N", "e", "w", "s">>
    ELSE IF title = TitleNewsDate THEN <<"n", "e", "-", "w", "s">>
    ELSE <<"A">>

\* the display names of the first channel of both reference feeds
ScenarioNames == {NameCCTV1, NameOne}

ValidDescs == {DescEsc5, Desc5, Desc6}

Triple(name, title, desc) == [name |-> name, title |-> title, desc |-> desc]

Triples ==
    {Triple(n, t, d) : n \in ScenarioNames, t \in UNION TitleVariants, d \in ValidDescs}

TripleFeed(triple) ==
    Feed(<< Channel("c1", << triple.name >>) >>,
         << Programme("c1", triple.title, triple.desc) >>)

ScenarioInit ==
    /\ Constructed
    /\ OthersNotStarted
    /\ config \in RunConfigs
    /\ disk = NoFile
    /\ scenario \in {pair \in [first : Triples, second : Triples] :
                        \E v \in TitleVariants :
                           pair.first.title \in v /\ pair.second.title \in v}
    /\ script = << TripleFeed(scenario.first), TripleFeed(scenario.second) >>
    /\ plan = << >>
    /\ pending = {}

SpecScenario == ScenarioInit /\ [][ScriptedNext]_vars

Finished == pc = "done"

FirstDesc == RepairedDesc(scenario.first.desc)

SecondDesc == RepairedDesc(scenario.second.desc)

\* the store holds one record, of channel display string channel, with the
\* longer of the two descriptions, and the second was an extension if longer
OneRecord(channel) ==
    /\ Cardinality(Keys(desc_db)) = 1
    /\ \A key \in Keys(desc_db) :
          /\ RecordAt(desc_db, key).channel = channel
          /\ RecordAt(desc_db, key).desc \in {FirstDesc, SecondDesc}
          /\ Len(RecordAt(desc_db, key).desc) >= Len(FirstDesc)
          /\ Len(RecordAt(desc_db, key).desc) >= Len(SecondDesc)
    /\ Len(SecondDesc) > Len(FirstDesc) => last = "extended"

\* C8 as the specification words it: the two programmes end up as one
\* record under the first display name of the reference channel.
C8_OneRecordUnderFirstName ==
    Finished => OneRecord(ReferenceChannels[1].display_names[1])

\* C8: when both channel names resolve to the same canonical name and the
\* title without its suffix has 2 characters or more, the two programmes
\* end up as one record under that canonical name, holding the longer of the
\* two descriptions, the second being an extension when it is the longer.
C8_OneRecordWhenSameNameAndStem ==
    (/\ Finished
     /\ get_canonical_channel(scenario.first.name)[1]
           = get_canonical_channel(scenario.second.name)[1]
     /\ Len(Stem(scenario.first.title)) >= 2
     /\ Len(Stem(scenario.second.title)) >= 2)
    => OneRecord(get_canonical_channel(scenario.first.name)[1])

\* two sources that name the channel and spell the title differently, the
\* second with the longer description, have left one extended record
C8_Witness ==
    /\ Finished
    /\ scenario.first.name # scenario.second.name
    /\ scenario.first.title # scenario.second.title
    /\ Len(Stem(scenario.first.title)) >= 2
    /\ Len(SecondDesc) > Len(FirstDesc)
    /\ Cardinality(Keys(desc_db)) = 1
    /\ last = "extended"

(***************************************************************************)
(* The same source twice: up to MaxBatch programme elements, ingested in   *)
(* document order by two desc_sources entries one after the other.         *)
(***************************************************************************)
MaxBatch == 2

BatchProgrammes ==
    {Programme("c1", t, d) : t \in {TitleNews1, TitleNewsDate},
                             d \in {DescEsc3, DescPlaceholder, DescEsc5, Desc5, Desc6}}
    \cup {Programme("c2", TitleA1, Desc6)}

ReplayInit ==
    /\ Constructed
    /\ OthersNotStarted
    /\ config \in RunConfigs
    /\ disk \in Snapshots
    /\ config.accumulate \/ disk = SnapGood
    /\ \E channels \in SourceFeeds, progs \in SeqsUpTo(BatchProgrammes, MaxBatch) \ {<< >>} :
          script = << Feed(channels, progs), Feed(channels, progs) >>
    /\ plan = << >>
    /\ pending = {}
    /\ scenario = << >>

SpecReplay == ReplayInit /\ [][ScriptedNext]_vars

\* C5: once the first pass over the source is over, the store stays as that
\* pass left it: the second pass inserts nothing, extends nothing and
\* changes no field.
C5_ReplayChangesNothing == Len(passes) >= 1 => desc_db = passes[1]

\* the second pass is over; the first had extended a record, and the replay
\* offered both descriptions again
C5_Witness ==
    /\ pc = "done"
    /\ Len(passes) = 2
    /\ \E key \in DOMAIN offers :
          /\ Len(offers[key]) >= 4
          /\ Len(offers[key][2]) > Len(offers[key][1])

(***************************************************************************)
(* One source whose programme elements come in any order: a set of up to   *)
(* MaxBatch programme elements, taken one by one in an order left open.    *)
(***************************************************************************)
Batches == {B \in SUBSET BatchProgrammes : Cardinality(B) \in 1..MaxBatch}

OrderInit ==
    /\ Constructed
    /\ OthersNotStarted
    /\ config \in RunConfigs
    /\ disk \in Snapshots
    /\ config.accumulate \/ disk = SnapGood
    /\ scenario \in {Feed(channels, B) : channels \in SourceFeeds, B \in Batches}
    /\ script = << >>
    /\ plan = << >>
    /\ pending = {}

\* lines 256-271: the source is opened
order_source ==
    /\ sources = 0
    /\ begin_source(scenario.channels)
    /\ pending' = scenario.programmes
    /\ UNCHANGED << script, plan, scenario, others, history_vars >>

\* lines 273-320: any programme element not yet taken
order_programme ==
    \E p \in pending :
       /\ extract_programme(p)
       /\ pending' = IF pc' = "programmes" THEN pending \ {p} ELSE {}
       /\ UNCHANGED << script, plan, scenario, others, history_vars >>

\* lines 322-324
order_end ==
    /\ pending = {}
    /\ end_source
    /\ UNCHANGED << input_vars, others, history_vars >>

\* lines 421-425
order_save ==
    /\ sources = 1
    /\ save_database
    /\ UNCHANGED << input_vars, others, history_vars >>

OrderNext ==
    \/ load_target_channels /\ UNCHANGED << input_vars, others, history_vars >>
    \/ load_existing_db /\ UNCHANGED << input_vars, others, history_vars >>
    \/ order_source
    \/ order_programme
    \/ order_end
    \/ order_save

SpecOrder == OrderInit /\ [][OrderNext]_vars

\* the source has been extracted and the store not yet saved
Extracted == pc = "desc_sources" /\ sources = 1

\* the store the run started from
StartStore == IF config.accumulate /\ disk.exists THEN disk.content ELSE EmptyDict

WellFormed(db) == \A key \in Keys(db) : HasDesc(RecordAt(db, key))

\* the store after the programme elements of S, taken in one fixed order
RECURSIVE InFixedOrder(_, _)
InFixedOrder(db, S) ==
    IF S = {} THEN db
    ELSE LET p == CHOOSE x \in S : TRUE
         IN  InFixedOrder(programme_pass(db, p).db, S \ {p})

\* p brings a description to the merge
IsOffer(p) ==
    /\ InScope(p.channel)
    /\ p.title # None
    /\ p.desc # None
    /\ Len(RepairedDesc(p.desc)) >= 5
    /\ ~MatchesPlaceholder(RepairedDesc(p.desc))

\* no two programme elements bring descriptions of equal length to one key
NoTies(S) ==
    \A p \in S, q \in S :
       (p # q /\ IsOffer(p) /\ IsOffer(q) /\ KeyOf(p) = KeyOf(q))
       => Len(RepairedDesc(p.desc)) # Len(RepairedDesc(q.desc))

\* the stored descriptions of a store, by key
DescsOf(db) == [key \in Keys(db) |-> RecordAt(db, key).desc]

MaxEntries == 2

\* a snapshot other than the one at the output path
OtherStore ==
    Put(EmptyDict, normalize(NameCCTV2),
        Put(EmptyDict, <<"q", "u", "i", "z">>,
            Record(Strip(NameCCTV2), <<"Q", "u", "i", "z">>, Desc5)))

ExistingDbs ==
    {NoExistingDb,
     ExistingDb("path", "json", OtherStore),
     ExistingDb("url", "unreachable", EmptyDict),
     ExistingDb("url", "not_found", EmptyDict),
     ExistingDb("url", "not_json", EmptyDict),
     ExistingDb("url", "json", OtherStore),
     ExistingDb("url", "json", SnapNumber.content)}

References ==
    {NoReference, ReferenceFailing("no_url"), ReferenceFailing("failed"),
     ReferenceFailing("unparsable"), Reference(RefPlain)}

FailureConfigs ==
    {[Config(r, a) EXCEPT !.existing_db = e] :
        r \in References, a \in BOOLEAN, e \in ExistingDbs}

RunSnapshots == {NoFile, SnapGood, SnapNoDesc, Corrupt, SnapNumber}

\* programme elements of a source: one for the key of the snapshots at the
\* output path, one without title, one without desc, one for a second channel
ProgNews == Programme("c1", TitleNews1, Desc6)

ProgNoTitle == Programme("c1", None, Desc6)

ProgNoDesc == Programme("c1", TitleNews1, None)

ProgA == Programme("c2", TitleA1, Desc6)

RunPlans == {<< >>, <<ProgNews, ProgA>>, <<ProgNoTitle, ProgA>>, <<ProgNoDesc, ProgA>>}

RunEntries ==
    {Unfetched("no_url"), Unfetched("failed"), Unfetched("unparsable")}
    \cup {Feed(SourceB, progs) : progs \in RunPlans}

\* lines 417-419 and 256: the next entry of the script has no url
scripted_without_url ==
    /\ script # << >>
    /\ Head(script).fetch = "no_url"
    /\ source_without_url
    /\ script' = Tail(script)
    /\ UNCHANGED << plan, pending, scenario, others, history_vars >>

\* lines 417-419, 256-261 and 326-327: the feed of the next entry of the
\* script is not downloaded, or is not parsed
scripted_unavailable ==
    /\ script # << >>
    /\ Head(script).fetch \in {"failed", "unparsable"}
    /\ source_unavailable
    /\ script' = Tail(script)
    /\ passes' = Append(passes, desc_db)
    /\ UNCHANGED << plan, pending, scenario, others, returned >>

RunInit ==
    /\ Constructed
    /\ OthersNotStarted
    /\ config \in FailureConfigs
    /\ disk \in RunSnapshots
    /\ script \in SeqsUpTo(RunEntries, MaxEntries)
    /\ scenario = script
    /\ plan = << >>
    /\ pending = {}

RunNext ==
    \/ load_target_channels_missing /\ UNCHANGED << input_vars, others, history_vars >>
    \/ load_target_channels_failed /\ UNCHANGED << input_vars, others, history_vars >>
    \/ load_target_channels_raises /\ UNCHANGED << input_vars, others, history_vars >>
    \/ load_target_channels /\ UNCHANGED << input_vars, others, history_vars >>
    \/ load_existing_db /\ UNCHANGED << input_vars, others, history_vars >>
    \/ scripted_without_url
    \/ scripted_unavailable
    \/ scripted_source
    \/ scripted_programme
    \/ scripted_end
    \/ scripted_save

SpecRun == RunInit /\ [][RunNext]_vars

\* the reference feed is declared, downloaded and parsed
ReferenceObtained == config.reference_epg.declared /\ config.reference_epg.fetch = "ok"

\* main() exits with a status other than 0: run() returned False, or an
\* exception left it
ExitsNonZero(at) == at \in {"exit_failure", "exit_exception"}

\* C11: when the reference feed is not declared, not downloaded or not parsed,
\* the one step the run takes is from load_target_channels to an exit with a
\* status other than 0; the store is not loaded, no source entry is taken and
\* nothing is written to the output path.
C11_AbortsBeforeIngestion ==
    [][~ReferenceObtained =>
          /\ pc = "load_target_channels"
          /\ ExitsNonZero(pc')
          /\ UNCHANGED << target_channels, desc_db, disk, sources, script, passes >>]_vars

\* the run has failed on a reference feed that is not parsed, with
\* accumulation on, a snapshot at the output path and a source entry to take
C11_Witness ==
    /\ pc = "exit_failure"
    /\ config.reference_epg.fetch = "unparsable"
    /\ config.accumulate
    /\ disk = SnapGood
    /\ script # << >>
    /\ desc_db = EmptyDict

\* C12 as the specification words it: the run exits with a status other than
\* 0 only when the reference feed was not obtained.
C12_FailsOnlyWithoutReference == ExitsNonZero(pc) => ~ReferenceObtained

\* C13 as the specification words it: a source entry whose feed is not to be
\* had leaves the store as it is, and the run goes on with the entries after
\* it.
C13_FailedFeedSkippedAlone ==
    [][(pc = "desc_sources" /\ script # << >> /\ Head(script).fetch # "ok") =>
          /\ desc_db' = desc_db
          /\ pc' = "desc_sources"
          /\ script' = Tail(script)]_vars

\* C14 as the specification words it: after a programme element without
\* title, without desc, or whose pass raises, the loop goes on with the
\* programme elements after it.
C14_DefectiveEntrySkippedAlone ==
    [][(/\ pc = "programmes"
        /\ plan # << >>
        /\ \/ ~Truthy(Head(plan).title)
           \/ ~Truthy(Head(plan).desc)
           \/ last' = "raised") =>
          /\ pc' = "programmes"
          /\ plan' = Tail(plan)]_vars

\* a snapshot that is read and has the shape of a store
ReadableUrl == url_returns(config.existing_db)

ReadableFile == disk.exists /\ disk.json /\ Summable(disk.content)

\* C15 as the specification words it: when neither the URL of existing_db nor
\* the output path gives a snapshot that is read and of the right shape,
\* ingestion starts from an empty store.
C15_BadSnapshotStartsEmpty ==
    [][(pc = "load_existing_db" /\ ~ReadableUrl /\ ~ReadableFile) =>
          /\ desc_db' = EmptyDict
          /\ pc' = "desc_sources"]_vars

\* C16: the alias table is built by the first step of the run and by no
\* other; with accumulation the store is loaded by the next step, before any
\* source entry is taken; the source entries are taken one by one in the
\* order of the configuration, each once; the store is written to the output
\* path by the last step of the run only, when no entry and no programme
\* element is left.
C16_PhasesInOrder ==
    [][/\ pc' # "load_target_channels"
       /\ target_channels' # target_channels => pc = "load_target_channels"
       /\ (pc = "load_target_channels" /\ ~ExitsNonZero(pc')) =>
             pc' = (IF config.accumulate THEN "load_existing_db" ELSE "desc_sources")
       /\ pc' = "load_existing_db" => pc = "load_target_channels"
       /\ pc = "load_existing_db" =>
             (pc' = "desc_sources" /\ sources = 0 /\ script = scenario)
       /\ desc_db' # desc_db => pc \in {"load_existing_db", "programmes"}
       /\ script = SubSeq(scenario, sources + 1, Len(scenario))
       /\ script' # script =>
             (pc = "desc_sources" /\ script' = Tail(script) /\ sources' = sources + 1)
       /\ sources' # sources => script' # script
       /\ disk' # disk => pc' = "done"
       /\ pc' = "done" =>
             /\ pc = "desc_sources"
             /\ script = << >>
             /\ plan = << >>
             /\ sources = Len(scenario)
             /\ disk' = File(desc_db)
       /\ pc # "done"]_vars

\* a run with accumulation and two different source entries, both ingested,
\* is over and has written a store that is not empty
C16_Witness ==
    /\ pc = "done"
    /\ config.accumulate
    /\ Len(scenario) = 2
    /\ scenario[1] # scenario[2]
    /\ scenario[1].fetch = "ok" /\ scenario[1].programmes # << >>
    /\ scenario[2].fetch = "ok" /\ scenario[2].programmes # << >>
    /\ Len(passes) = 2
    /\ desc_db # EmptyDict
    /\ disk = File(desc_db)

\* existing_db names a snapshot that is read and has the shape of a store
NamedSnapshot ==
    /\ config.existing_db.kind \in {"path", "url"}
    /\ config.existing_db.response = "json"
    /\ Summable(config.existing_db.body)

\* C17 as the specification words it: with accumulation and a readable
\* snapshot named by existing_db, the store at the start of ingestion is that
\* snapshot; without accumulation it is empty.
C17_StartsFromNamedSnapshot ==
    [][(pc \in {"load_target_channels", "load_existing_db"} /\ pc' = "desc_sources") =>
          /\ (config.accumulate /\ NamedSnapshot) => desc_db' = config.existing_db.body
          /\ ~config.accumulate => desc_db' = EmptyDict]_vars

\* the number of desc_sources entries run() has taken so far
Taken == Len(scenario) - Len(script)

\* tail is what is left of list after some of its first elements are gone
IsSuffix(tail, list) ==
    /\ Len(tail) <= Len(list)
    /\ tail = SubSeq(list, Len(list) - Len(tail) + 1, Len(list))

\* C21: the sources are ingested one at a time.  The programme elements
\* still to be upserted are all elements of the one source that is open, the
\* last entry taken; the store changes during ingestion only while a source
\* is open, by a step that takes no entry; and an entry is taken only when the
\* source before it has been left with none of its elements still to be
\* upserted.
C21_OneFeedAtATime ==
    [][/\ plan # << >> =>
              /\ pc = "programmes"
              /\ Taken >= 1
              /\ IsSuffix(plan, scenario[Taken].programmes)
       /\ (desc_db' # desc_db /\ pc # "load_existing_db") =>
              pc = "programmes" /\ script' = script
       /\ script' # script =>
              /\ pc = "desc_sources"
              /\ plan = << >>
              /\ script' = Tail(script)]_vars

\* the second of two sources that both have programme elements is open, an
\* element of it has been taken, and the store holds records
C21_Witness ==
    /\ pc = "programmes"
    /\ Taken = 2
    /\ scenario[1].programmes # << >>
    /\ Len(plan) < Len(scenario[2].programmes)
    /\ Len(passes) = 1
    /\ passes[1] # desc_db

(***************************************************************************)
(* The text methods called on their own: normalize, fix_html_entities and  *)
(* clean_program_title are called on a text, and then on what they         *)
(* returned.                                                               *)
(***************************************************************************)
MaxNesting == 12

\* "amp;" k times
RECURSIVE Amps(_)
Amps(k) == IF k = 0 THEN << >> ELSE <<"a", "m", "p", ";">> \o Amps(k - 1)

\* the text "<" escaped k + 1 times
Nested(k) == <<"&">> \o Amps(k) \o <<"l", "t", ";">>

\* titles that are a strippable marker and nothing else: an episode marker,
\* a number in parentheses, a date, a year, a replay marker, a number
MarkerTitles ==
    {<<Char.di, "2", "5", Char.qi>>,
     <<"(", "1", ")">>,
     <<"E", "P", "1", "2">>,
     <<"2", "0", "2", "4", "-", "0", "5", "-", "0", "1">>,
     <<"2", "0", "2", "4", "0", "5", "0", "1">>,
     <<"2", "0", "2", "4">>,
     <<"(", Char.chong, Char.bo, ")">>,
     <<"1", "2">>}

TitleTexts ==
    MarkerTitles
    \cup {TitleNews1, TitleNewsDate, TitleA1, TitleA,
          <<" ", "N", "e", "w", "s", " ", "1", "2", " ">>,
          <<"N", "e", "w", "s", "2", "0", "2", "4">>,
          <<"N", "1">>,
          <<"1", "2", "3", "4", "5">>,
          <<"-", "-", "1", "2">>,
          <<" ", " ">>}

NameTexts ==
    {None, << >>, NameCCTV1, NameCCTV2, NameCCTV1Spaced,
     <<"a", "_", "B", ":", " ", "[", "c", "]", "+", "|">>,
     <<Char.lLentic, "N", Char.rLentic, Char.fwColon, Char.lAngle, "x", Char.rAngle>>,
     <<"-", " ", "_">>}

DescTexts ==
    {Nested(k) : k \in 0..MaxNesting}
    \cup {DescEsc3, DescEsc5, DescPlaceholder, Desc6,
          <<"a", " ", "<", "b", ">", " ", " ", "c">>,
          <<"&", "n", "b", "s", "p", ";", "x", " ", "&", "q", "u", "o", "t", ";">>,
          <<"&", "a", "m", "p", "l", "t", ";">>,
          <<"&", " ", "a", "m", "p", ";">>,
          <<"&", "<", "l", "t", ";">>}

Texts == NameTexts \cup DescTexts \cup TitleTexts

\* the method called on text
Apply(method, text) ==
    CASE method = "normalize" -> normalize(text)
      [] method = "fix_html_entities" -> fix_html_entities(text)
      [] method = "clean_program_title" -> clean_program_title(text)

\* the text a call returned: the first of the three values of
\* clean_program_title, the value of the other methods
TextOf(method, out) == IF method = "clean_program_title" THEN out[1] ELSE out

call(method) ==
    /\ returned.calls = 0
    /\ returned' = Call(method, scenario, Apply(method, scenario), 1)
    /\ UNCHANGED << run_vars, input_vars, others, passes >>

call_normalize == call("normalize")

call_fix_html_entities == call("fix_html_entities")

call_clean_program_title == call("clean_program_title")

\* the method is called on the text it returned
call_on_result ==
    /\ returned.calls = 1
    /\ returned' = Call(returned.method, TextOf(returned.method, returned.out),
                        Apply(returned.method, TextOf(returned.method, returned.out)), 2)
    /\ UNCHANGED << run_vars, input_vars, others, passes >>

TextInit ==
    /\ Constructed
    /\ OthersNotStarted
    /\ config = Config(NoReference, TRUE)
    /\ disk = NoFile
    /\ script = << >>
    /\ plan = << >>
    /\ pending = {}
    /\ scenario \in Texts

TextNext ==
    \/ call_normalize
    \/ call_fix_html_entities
    \/ call_clean_program_title
    \/ call_on_result

SpecText == TextInit /\ [][TextNext]_vars

\* C18: for a title that is not empty, clean_program_title returns a title of
\* 2 characters or more, or else the trimmed title as it was; the second
\* value is the trimmed title, the third says whether the first differs from
\* it; and a title that is a strippable marker and nothing else comes back
\* as it was, not modified.
C18_CleanedOrUnchanged ==
    (returned.method = "clean_program_title" /\ Truthy(returned.arg)) =>
        /\ \/ Len(returned.out[1]) >= MinTitleLen
           \/ returned.out[1] = Strip(returned.arg)
        /\ returned.out[2] = Strip(returned.arg)
        /\ returned.out[3] <=> (returned.out[1] # Strip(returned.arg))
        /\ returned.arg \in MarkerTitles =>
              (returned.out[1] = returned.arg /\ ~returned.out[3])

\* clean_program_title was called on a title that is an episode marker and
\* nothing else, and returned it
C18_Witness ==
    /\ returned.method = "clean_program_title"
    /\ returned.calls = 1
    /\ returned.arg = <<Char.di, "2", "5", Char.qi>>
    /\ returned.out[1] = returned.arg

\* C28: for a title whose normalized key is not empty, the normalized key of
\* the title clean_program_title returns is not empty.
C28_CleanedKeyNotEmpty ==
    (returned.method = "clean_program_title" /\ Truthy(returned.arg)) =>
        (normalize(returned.arg) # << >> => normalize(returned.out[1]) # << >>)

\* C19: normalize returns the empty key for an absent or empty text, and
\* returns its own result unchanged.
C19_NormalizeIdempotent ==
    returned.method = "normalize" =>
        /\ ~Truthy(returned.arg) => returned.out = << >>
        /\ returned.calls = 2 => returned.out = returned.arg

\* normalize was called on a key it had made of a text with characters to
\* remove and letters to lower
C19_Witness ==
    /\ returned.method = "normalize"
    /\ returned.calls = 2
    /\ scenario = NameCCTV1
    /\ returned.arg # scenario
    /\ returned.arg # << >>

\* C20 as the specification words it: fix_html_entities returns its own
\* result unchanged, whatever the text.
C20_RepairIdempotent ==
    (returned.method = "fix_html_entities" /\ returned.calls = 2) =>
        returned.out = returned.arg

\* html.unescape applied n times at most brings text to a text it leaves as
\* it is
RECURSIVE Converges(_, _)
Converges(text, n) ==
    \/ unescape(text) = text
    \/ n > 0 /\ Converges(unescape(text), n - 1)

\* C20: fix_html_entities returns its own result unchanged when the text it
\* was first given is decoded to the end by MaxDecode passes of html.unescape.
C20_RepairIdempotentWhenDecoded ==
    (/\ returned.method = "fix_html_entities"
     /\ returned.calls = 2
     /\ Truthy(scenario) => Converges(scenario, MaxDecode)) =>
        returned.out = returned.arg

\* fix_html_entities was called on its result for a text escaped 3 times,
\* which it had decoded to the bracket
C20_Witness ==
    /\ returned.method = "fix_html_entities"
    /\ returned.calls = 2
    /\ scenario = Nested(2)
    /\ returned.arg = << Char.lAngle >>
    /\ returned.out = returned.arg

(***************************************************************************)
(* TvmaoEPGCrawler.parse_page, in tvmao_epg_crawler.py and in              *)
(* scripts/tvmao_epg_crawler.py: the times of a programme cell.  The two   *)
(* files differ in the test for a programme that ends on the next day.     *)
(* A datetime is written as the days after the date of the page, the hour  *)
(* and the minute; seconds and microseconds are set to 0 by both.          *)
(***************************************************************************)
\* DescExtractor is constructed and given nothing to do
ExtractorIdle ==
    /\ Constructed
    /\ NoInputs
    /\ config = Config(NoReference, TRUE)
    /\ disk = NoFile

MaxCells == 2

\* the numbers the pattern (\d{1,2}):(\d{2})-(\d{1,2}):(\d{2}) finds in
\* the time text of a cell: hours and minutes, some of them out of range
CellHours == {0, 21, 23, 24}

CellMinutes == {10, 50, 60}

Datetime(day, hour, minute) == [day |-> day, hour |-> hour, minute |-> minute]

\* datetime.replace(hour=..., minute=...) raises ValueError out of range
ValueError(hour, minute) == hour > 23 \/ minute > 59

\* the minutes from the start of the date of the page to datetime t
MinutesOf(t) == (t.day * 24 + t.hour) * 60 + t.minute

\* scripts/tvmao_epg_crawler.py, line 203
ends_next_day_scripts(start_hour, start_min, end_hour, end_min) ==
    end_hour < start_hour \/ (end_hour = start_hour /\ end_min < start_min)

\* tvmao_epg_crawler.py, line 144
ends_next_day(start_hour, start_min, end_hour, end_min) == end_hour < start_hour

\* lines 199-204 (140-145): the days from the date of the page to end_date
end_day(file, start_hour, start_min, end_hour, end_min) ==
    IF file = "scripts/tvmao_epg_crawler.py"
    THEN IF ends_next_day_scripts(start_hour, start_min, end_hour, end_min) THEN 1 ELSE 0
    ELSE IF ends_next_day(start_hour, start_min, end_hour, end_min) THEN 1 ELSE 0

\* lines 206-217 (147-159): the programme of the cell is appended, unless
\* one of its times is out of range
append_program(programs, file, start_hour, start_min, end_hour, end_min) ==
    IF ValueError(start_hour, start_min) \/ ValueError(end_hour, end_min)
    THEN programs
    ELSE Append(programs,
                [start |-> Datetime(0, start_hour, start_min),
                 stop  |-> Datetime(end_day(file, start_hour, start_min, end_hour, end_min),
                                    end_hour, end_min)])

\* a crawler of one of the two files, with the programmes it has and the
\* number of cells it has parsed
Crawler(file, programs, cells) ==
    [pc |-> "parse_page", file |-> file, programs |-> programs, cells |-> cells]

\* lines 183-217 (123-159): one cell with a time text that matches
parse_cell ==
    /\ crawler.pc = "parse_page"
    /\ crawler.cells < MaxCells
    /\ \E start_hour \in CellHours, start_min \in CellMinutes,
          end_hour \in CellHours, end_min \in CellMinutes :
          crawler' = Crawler(crawler.file,
                             append_program(crawler.programs, crawler.file,
                                            start_hour, start_min, end_hour, end_min),
                             crawler.cells + 1)
    /\ UNCHANGED << run_vars, input_vars, history_vars, fetcher >>

\* lines 129-217 (67-159): the page has no further cell
parse_page_ends ==
    /\ crawler.pc = "parse_page"
    /\ crawler' = [crawler EXCEPT !.pc = "parsed"]
    /\ UNCHANGED << run_vars, input_vars, history_vars, fetcher >>

CrawlInit ==
    /\ ExtractorIdle
    /\ fetcher = NotStarted
    /\ crawler \in {Crawler(file, << >>, 0) :
                       file \in {"tvmao_epg_crawler.py", "scripts/tvmao_epg_crawler.py"}}

CrawlNext == parse_cell \/ parse_page_ends

SpecCrawl == CrawlInit /\ [][CrawlNext]_vars

\* C26: every programme a crawler has appended stops at its start or later.
C26_StopNotBeforeStart ==
    crawler.pc # "not_started" =>
       \A i \in 1..Len(crawler.programs) :
          MinutesOf(crawler.programs[i].stop) >= MinutesOf(crawler.programs[i].start)

(***************************************************************************)
(* scripts/fetch_epg_desc.py: the process that asks the API for the        *)
(* descriptions of the programmes that have none.  Its state is the record *)
(* fetcher:                                                                *)
(*                                                                         *)
(*   pc               where main() stands, or how the process has exited   *)
(*   run              the number of processes started so far               *)
(*   resume           RESUME of the environment                            *)
(*   result_data, processed_items, is_interrupted    the globals           *)
(*   pending_programs, i, description, processed_count   locals of main()  *)
(*   output_file, progress_file    OUTPUT_FILE and PROGRESS_FILE on disk   *)
(*   loaded           processed_items as load_existing_data left it        *)
(*   queried          the keys whose title was sent to the API in this run *)
(*   earlier          the keys that processes before this one marked as    *)
(*                    processed, since the last start without resume       *)
(*                                                                         *)
(* SIGINT and SIGTERM are handled between any two statements of main().    *)
(* A write of save_data is taken to succeed; save_data catches and prints  *)
(* a failure.                                                              *)
(***************************************************************************)
SAVE_INTERVAL == 5

MaxRuns == 2

\* a description the API returns that is a JSON object, not a text.  It is
\* written like None, as a value no text equals.
JsonObject == << "object" >>

\* OUTPUT_FILE holds File(result_data) or is NoFile; PROGRESS_FILE:
Progress(processed) == [exists |-> TRUE, processed |-> processed]

NoProgress == [exists |-> FALSE, processed |-> {}]

\* an element of the list extract_programs_without_desc returns, line 211
Program(channel_name, cleaned_title, original_title) ==
    [channel_name |-> channel_name, cleaned_title |-> cleaned_title,
     original_title |-> original_title]

\* lines 314, 324 and 338: key = f"{channel_name}|||{cleaned_title}"
key(p) == p.channel_name \o <<"|", "|", "|">> \o p.cleaned_title

TitleB == <<"B">>

TitleC == <<"C">>

\* the programmes without desc of a feed: five keys, the first of them twice
ProgramsLong ==
    << Program(NameCCTV1, TitleA, TitleA1), Program(NameCCTV1, TitleB, TitleB),
       Program(NameCCTV1, TitleA, TitleA), Program(NameCCTV1, TitleC, TitleC),
       Program(NameOne, TitleA, TitleA), Program(NameOne, TitleB, TitleB) >>

ProgramsShort == << Program(NameCCTV1, TitleB, TitleB), Program(NameOther, TitleA, TitleA) >>

FetchFeeds == {ProgramsLong, ProgramsShort}

\* what the request of line 229 comes to
Responses == {"description", "no_result", "request_error", "parse_error", "object"}

\* lines 217-268: what query_api returns
query_api(response) ==
    CASE response = "description" -> Desc6
      [] response = "object" -> JsonObject
      [] OTHER -> None

\* lines 311-318: the first programme of every key
RECURSIVE unique_programs(_, _, _)
unique_programs(programs, seen, k) ==
    IF k > Len(programs) THEN << >>
    ELSE IF key(programs[k]) \in seen THEN unique_programs(programs, seen, k + 1)
    ELSE << programs[k] >> \o unique_programs(programs, seen \cup {key(programs[k])}, k + 1)

\* faulty variant of lines 321-326: the processed keys are not looked at
pending_all(programs, processed) == programs

\* lines 321-326: the programmes whose key is not processed
pending_of(programs, processed) ==
    SelectSeq(programs, LAMBDA p : key(p) \notin processed)

\* lines 347-354: the description is stored under channel and cleaned title
stored(data, p, description) ==
    Put(data, p.channel_name,
        Put(IF p.channel_name \in DOMAIN data THEN data[p.channel_name] ELSE EmptyDict,
            p.cleaned_title,
            Record(p.channel_name, p.original_title, description)))

\* lines 77-99: save_data writes result_data and then the progress
save_data(f) ==
    [f EXCEPT !.output_file = File(f.result_data),
              !.progress_file = Progress(f.processed_items)]

\* the positions of main() at which the process runs
Running == {"main", "load_progress", "download", "loop", "queried", "stored", "marked"}

\* the process has exited: at the end of main(), by the handler, by
\* sys.exit(1), by an exception nothing catches
Exited == {"done", "exit_signal", "exit_error", "exit_exception"}

\* the programme of the iteration main() is in
Current(f) == f.pending_programs[f.i]

\* lines 32-34 and 271-291: a process starts, on the files as they are
Started(f, resume) ==
    [pc |-> "main", run |-> f.run + 1, resume |-> resume,
     result_data |-> EmptyDict, processed_items |-> {}, is_interrupted |-> FALSE,
     pending_programs |-> << >>, i |-> 0, description |-> None, processed_count |-> 0,
     output_file |-> f.output_file, progress_file |-> f.progress_file,
     loaded |-> {}, queried |-> << >>,
     earlier |-> IF resume THEN f.earlier \cup f.processed_items ELSE {}]

\* no process has run and the two files are not there
FetcherInit ==
    [pc |-> "not_started", run |-> 0, resume |-> TRUE,
     result_data |-> EmptyDict, processed_items |-> {}, is_interrupted |-> FALSE,
     pending_programs |-> << >>, i |-> 0, description |-> None, processed_count |-> 0,
     output_file |-> NoFile, progress_file |-> NoProgress,
     loaded |-> {}, queried |-> << >>, earlier |-> {}]

step(f) ==
    /\ fetcher' = f
    /\ UNCHANGED << run_vars, input_vars, history_vars, crawler >>

\* lines 276-291: main() starts with XML_GZ_URL set
main_start ==
    /\ fetcher.pc \in {"not_started"} \cup Exited
    /\ fetcher.run < MaxRuns
    /\ \E resume \in BOOLEAN : step(Started(fetcher, resume))

\* lines 279-281: XML_GZ_URL is not set
main_without_url ==
    /\ fetcher.pc \in {"not_started"} \cup Exited
    /\ fetcher.run < MaxRuns
    /\ step([Started(fetcher, TRUE) EXCEPT !.pc = "exit_error"])

\* lines 56-63: the results are loaded
load_results ==
    /\ fetcher.pc = "main"
    /\ fetcher.resume
    /\ step([fetcher EXCEPT !.pc = "load_progress",
                            !.result_data = IF fetcher.output_file.exists
                                            THEN fetcher.output_file.content
                                            ELSE @])

\* lines 66-74: the progress is loaded
load_progress ==
    /\ fetcher.pc = "load_progress"
    /\ step([fetcher EXCEPT !.pc = "download",
                            !.processed_items = IF fetcher.progress_file.exists
                                                THEN fetcher.progress_file.processed
                                                ELSE @,
                            !.loaded = IF fetcher.progress_file.exists
                                       THEN fetcher.progress_file.processed
                                       ELSE @])

\* lines 296-298: no resume
reset_data ==
    /\ fetcher.pc = "main"
    /\ ~fetcher.resume
    /\ step([fetcher EXCEPT !.pc = "download", !.result_data = EmptyDict,
                            !.processed_items = {}])

\* lines 301-306: the feed is not downloaded or not parsed
download_failed ==
    /\ fetcher.pc = "download"
    /\ step([save_data(fetcher) EXCEPT !.pc = "exit_error"])

\* lines 301-331: the feed is parsed, its programmes without desc are
\* reduced to one per key and to those that are not processed
extract_programs ==
    /\ fetcher.pc = "download"
    /\ \E programs \in FetchFeeds :
          step([fetcher EXCEPT
                   !.pc = "loop",
                   !.pending_programs = pending_of(unique_programs(programs, {}, 1),
                                                   fetcher.processed_items),
                   !.i = 1,
                   !.processed_count = 0])

\* lines 334-343: the title of the next pending programme is sent to the API
query ==
    /\ fetcher.pc = "loop"
    /\ fetcher.i <= Len(fetcher.pending_programs)
    /\ \E response \in Responses :
          step([fetcher EXCEPT !.pc = "queried",
                               !.description = query_api(response),
                               !.queried = Append(@, key(Current(fetcher)))])

\* lines 345-359: a description is stored; line 357 prints its first 50
\* characters, and raises when it is no text
store ==
    /\ fetcher.pc = "queried"
    /\ step(IF ~Truthy(fetcher.description) THEN [fetcher EXCEPT !.pc = "stored"]
            ELSE [fetcher EXCEPT
                     !.result_data = stored(@, Current(fetcher), fetcher.description),
                     !.pc = IF fetcher.description = JsonObject
                            THEN "exit_exception" ELSE "stored"])

\* lines 362-363: the key is marked as processed
mark ==
    /\ fetcher.pc = "stored"
    /\ step([fetcher EXCEPT !.pc = "marked",
                            !.processed_items = @ \cup {key(Current(fetcher))},
                            !.processed_count = @ + 1])

\* lines 366-372: the data are saved after every SAVE_INTERVAL-th programme,
\* and the loop goes on
periodic_save ==
    /\ fetcher.pc = "marked"
    /\ step([(IF fetcher.processed_count % SAVE_INTERVAL = 0
              THEN save_data(fetcher) ELSE fetcher)
                EXCEPT !.pc = "loop", !.i = @ + 1])

\* lines 334 and 375-383: no programme is pending, the data are saved
final_save ==
    /\ fetcher.pc = "loop"
    /\ fetcher.i > Len(fetcher.pending_programs)
    /\ step([save_data(fetcher) EXCEPT !.pc = "done"])

\* lines 37-48: SIGINT or SIGTERM arrives while the process runs
signal_handler ==
    /\ fetcher.pc \in Running
    /\ step([save_data([fetcher EXCEPT !.is_interrupted = TRUE])
                EXCEPT !.pc = "exit_signal"])

FetchInit ==
    /\ ExtractorIdle
    /\ crawler = NotStarted
    /\ fetcher = FetcherInit

FetchNext ==
    \/ main_start
    \/ main_without_url
    \/ load_results
    \/ load_progress
    \/ reset_data
    \/ download_failed
    \/ extract_programs
    \/ query
    \/ store
    \/ mark
    \/ periodic_save
    \/ final_save
    \/ signal_handler

SpecFetch == FetchInit /\ [][FetchNext]_vars

\* the keys sent to the API in this run
QueriedKeys == {fetcher.queried[a] : a \in 1..Len(fetcher.queried)}

\* C24: a key of the progress set that load_existing_data loaded is not sent
\* to the API, and no key is sent to the API twice in one run.
C24_QueriedAtMostOnce ==
    /\ QueriedKeys \cap fetcher.loaded = {}
    /\ \A a, b \in 1..Len(fetcher.queried) :
          fetcher.queried[a] = fetcher.queried[b] => a = b

\* a second process has resumed on the progress of a first one, which held
\* one key of the feed with five keys, and has queried the four other keys
C24_Witness ==
    /\ fetcher.pc = "done"
    /\ fetcher.run = 2
    /\ fetcher.resume
    /\ key(ProgramsLong[2]) \in fetcher.loaded
    /\ Len(fetcher.queried) = 4

\* the processed keys PROGRESS_FILE holds
Persisted == IF fetcher.progress_file.exists THEN fetcher.progress_file.processed ELSE {}

\* C25: at no time are more than SAVE_INTERVAL processed keys missing from
\* the progress file, and none is missing once the process has exited.
C25_ProgressPersisted ==
    /\ Cardinality(fetcher.processed_items \ Persisted) <= SAVE_INTERVAL
    /\ fetcher.pc \in Exited => fetcher.processed_items \subseteq Persisted

\* the keys whose iteration is over: all that were queried, but for the last
\* one while main() stands between its query and line 362, or when a signal
\* has ended the process
IterationOver ==
    IF fetcher.pc \in {"queried", "stored", "exit_signal"}
    THEN {fetcher.queried[a] : a \in 1..(Len(fetcher.queried) - 1)}
    ELSE QueriedKeys

\* C29: a key is marked as processed once its iteration is over, whatever
\* the query returned, and a process that resumes does not send to the API
\* a key that an earlier process marked.
C29_MarkedWhateverOutcome ==
    /\ IterationOver \subseteq fetcher.processed_items
    /\ fetcher.resume => QueriedKeys \cap fetcher.earlier = {}

\* the keys of the channels and cleaned titles OUTPUT_FILE has a description for
PersistedResults ==
    IF ~fetcher.output_file.exists THEN {}
    ELSE UNION {{c \o <<"|", "|", "|">> \o t : t \in DOMAIN fetcher.output_file.content[c]} :
                   c \in DOMAIN fetcher.output_file.content}

\* C30: whenever signals arrive, every channel and cleaned title that has a
\* description in OUTPUT_FILE has its key in the processed set of
\* PROGRESS_FILE.
C30_PersistedConsistent == PersistedResults \subseteq Persisted

====
